---- MODULE Spec2Model ----
(***************************************************************************)
(* Verification model of the MYRASPOS kernel core.                         *)
(*                                                                         *)
(* Part 1: the cooperative scheduler of src/kernel/sched.c together with   *)
(* the IRQ entry of src/kernel/irq.c, the timer poll of src/kernel/timer.c *)
(* and the wake-ups that src/kernel/input.c issues from the input poll.    *)
(*                                                                         *)
(* A task struct is a record indexed by its id (ids are never reused, so   *)
(* the id identifies the struct).  Pointers to tasks are ids, 0 is NULL    *)
(* for `next` and `task_head`, and 0 is &boot_task for `task_cur`.  A      *)
(* function pointer is modelled by whether it is non-NULL.                 *)
(***************************************************************************)
EXTENDS Integers, Sequences, FiniteSets, TLC

\* ------------------------------------------------------------------ bounds
MaxTasks == 2       \* Spec: task_create is capped at this many ids
MaxKillTasks == 4   \* KillSpec: task_create is capped at this many ids
MaxTick == 1        \* scheduler_tick is capped at this value
MaxWaiters == 2     \* the waiter list is capped at this length
MaxYields == 100    \* PairSpec: the yields of the two tasks are capped at this

\* ------------------------------------------------------------- vocabulary
BOOT == 0
MaxIds == IF MaxTasks > MaxKillTasks THEN MaxTasks ELSE MaxKillTasks
TaskIds == 1..MaxIds
Events == {"WM", "MOUSE"}
Polls == {"none", "key", "mouse"}
BlockTypes == {"NONE", "TIMER", "EVENT"}

\* ------------------------------------------- allocator and PTY constants
PAGE_SIZE == 4096
HDR == 32            \* sizeof(struct km_header)
MaxPages == 4        \* total_pages of the pool
MaxLive == 2         \* the callers hold at most this many pointers
MaxDoubleFrees == 1  \* DfSpec: the callers free a pointer twice this often
MaxCalls == 6        \* DfSpec: the allocator calls of a run

NULL == 0
Pages == 0..(MaxPages - 1)
PoolStart == PAGE_SIZE
PageAddr(idx) == PoolStart + idx * PAGE_SIZE
ZeroHdr == [size |-> 0, is_large |-> 0, next |-> NULL]

PTY_IN_SIZE == 512   \* the modulus of in_h and in_t
PTY_IN_BUF == 1024   \* char in_buf[1024]
PTY_OUT_SIZE == 2048 \* the modulus of out_h and out_t
PTY_OUT_BUF == 8192  \* char out_buf[8192]
NL == 10             \* '\n'
CR == 13             \* '\r'
BS == 8              \* '\b'
DEL == 127
SPACE == 32          \* ' '

\* --------------------------------------------- window manager constants
MaxWins == 2             \* WmSpec: the heap has room for this many windows
MaxFocusWins == 3        \* FocusSpec: the heap has room for this many windows
MaxRtWins == 1           \* RtSpec: the heap has room for this many windows
MaxDrags == 1            \* the drag moves of a run
MaxKeys == 130           \* QueueSpec: the key events of a run
SCREEN_W == 800
SCREEN_H == 600
taskbar_h == 32
WM_INPUT_QUEUE_SIZE == 128
WinIds == 1..(IF MaxWins > MaxFocusWins THEN MaxWins ELSE MaxFocusWins)
WmStates == {"NORMAL", "MINIMIZED", "MAXIMIZED", "FULLSCREEN", "MAXIMIZED_TASKBAR"}

\* The memory of a struct window that is not allocated.
NoWin ==
    [x |-> 0, y |-> 0, w |-> 0, h |-> 0,
     saved_x |-> 0, saved_y |-> 0, saved_w |-> 0, saved_h |-> 0,
     state |-> "NORMAL", on_close |-> FALSE, next |-> NULL,
     input_head |-> 0, input_tail |-> 0, input_queue |-> [i \in {} |-> 0]]

\* No key event has been offered: the number of key events the compositor
\* has taken from the key queue (an event is named by its number), the events
\* stored in the window's queue and not popped yet, and the last
\* wm_pop_key_event: its result, the event it gave, the oldest event then.
NoKeys == [offered |-> 0, pending |-> <<>>,
           lastpop |-> [ok |-> 0, ev |-> 0, oldest |-> 0]]

\* No operation of the window manager has been made.
NoWmOp == [name |-> "init", win |-> NULL, arg |-> "NORMAL", from |-> "NORMAL",
           pre |-> <<>>, second |-> FALSE, steps |-> <<>>]
RoundTripStates == {"MAXIMIZED", "MAXIMIZED_TASKBAR", "FULLSCREEN"}

\* input.c
MaxInputTick == 3        \* InputSpec: the interrupts of a run
EVENT_QUEUE_SIZE == 256
INPUT_TYPE_KEY == 1
INPUT_TYPE_REL == 2
INPUT_TYPE_ABS == 3
INPUT_TYPE_MOUSE_BTN == 10
BTN_MISC == 256          \* 0x100: key codes from here on go to the mouse queue
BTN_LEFT == 272          \* 0x110
ABS_RANGE == 32768       \* the divisor of scale_mouse

\* No input_push_event has been made.
NoPush == [type |-> 0, code |-> 0, pushed |-> FALSE, evs |-> <<>>]

\* The statics of input.c at boot (input_init is never called), the number of
\* input_push_event calls and the last of them: the type it stored, whether it
\* stored the event, and its task_wake_event calls in call order.
NoInq ==
    [key_head |-> 0, key_tail |-> 0, mouse_head |-> 0, mouse_tail |-> 0,
     mouse_x |-> 0, mouse_y |-> 0, mouse_btn |-> 0,
     calls |-> 0, last |-> NoPush]

\* PSTATE.I (TRUE = IRQs masked), the sched_flags each context saved in the
\* schedule() call it is suspended in, and the last schedule() call: the path
\* it took and the mask its caller had.
NoIrqm ==
    [masked |-> TRUE, flags |-> [c \in 0..MaxIds |-> TRUE],
     last |-> [path |-> "none", pre |-> TRUE]]

NoStack == [guard |-> {}, canary |-> FALSE, sp |-> 0]
NoStk == [halted |-> FALSE, on_cpu |-> BOOT, sp |-> 0, smashes |-> 0,
          t |-> [c \in 0..MaxIds |-> NoStack]]
NoKbd == [tty |-> FALSE, shift_state |-> 0, caps_lock |-> FALSE,
          last |-> [kev |-> [type |-> 0, code |-> 0, value |-> 0],
                    ch |-> 0, wrote |-> FALSE]]
NoRingOp == [ring |-> "none", op |-> "none", full |-> FALSE, c |-> 0, got |-> 0]
NoEvq == [key |-> [i \in {} |-> 0], mouse |-> [i \in {} |-> 0], ops |-> 0,
          last |-> NoRingOp]
NoTmr == [ticks |-> 0, last_ms |-> 0]
\* A poll of the input devices that is not running.
NoPoll == [pc |-> "idle", used_idx |-> 0, desc_idx |-> 0]
\* No input device was found (num_input_devs = 0).
NoVq ==
    [qsize |-> 0, avail |-> [j \in {} |-> 0], avail_idx |-> 0,
     used |-> [j \in {} |-> 0], used_idx |-> 0, ev_buf |-> [j \in {} |-> 0],
     last_used_idx |-> 0, task |-> NoPoll, irq |-> NoPoll,
     delivered |-> 0, takes |-> [n \in {} |-> 0], iters |-> 0, irqs |-> 0,
     returned |-> FALSE]

\* the four rings
MaxRingOps == 3      \* RingSpec: the ring calls of a run

\* timer.c
CounterFreq == 2000  \* counter_freq as read from cntfrq_el0, in Hz
MaxClockTicks == 6   \* TimerSpec: cntpct_el0 is capped at this value

\* wm.c, the keyboard loop
MaxTtyKeys == 3      \* TtySpec: the key events of a run

\* sched.c, stacks
STACK_GUARD_SIZE == 4096
StackKb == 16
MaxSmashes == 1      \* StackSpec: stores that land on a guard or a canary

\* virtio.c
MaxFlushes == 2          \* GpuSpec: the virtio_gpu_flush calls of a run
IdxMod == 65536          \* avail[1] and used[1] are uint16_t

\* The statics of virtio.c before virtio_gpu_init, the indices of the avail
\* and used rings of queue 0, and the history of a run: the number of
\* virtio_gpu_init calls with the value returned, the commands sent so far
\* with their results, the number of virtio_gpu_flush calls and the commands
\* the last of them sent.
NoGpu ==
    [gpu_mmio_base |-> 0, gpu_qmem |-> 0, gpu_active |-> 0,
     gpu_w |-> 0, gpu_h |-> 0, gpu_scanout_id |-> 0,
     avail |-> 0, used |-> 0,
     inits |-> 0, ret |-> 0, log |-> <<>>, sent |-> <<>>,
     flushes |-> 0, flushed |-> <<>>]

\* The statics of wm.c at boot, with no window: window_list, focused_window,
\* wm_handle_clicks's last_btn, drag_win and drag offsets, myra_app.c's g_myra
\* (the launcher's window), and the history of a run: the windows kmalloc has
\* handed out and the number the heap has room for, the last operation with
\* the steps of its close, the number of drag moves, the key events.
WmInit0 ==
    [wins |-> [i \in WinIds |-> NoWin], alloc |-> {}, room |-> MaxWins,
     window_list |-> NULL, focused_window |-> NULL,
     last_btn |-> 0, drag_win |-> NULL, drag_off_x |-> 0, drag_off_y |-> 0,
     g_myra |-> NULL,
     op |-> NoWmOp, drags |-> 0, keys |-> NoKeys]

VARIABLES
    tasks,             \* id -> struct task (the fields the scheduler uses)
    task_head,         \* static struct task *task_head
    task_cur,          \* static struct task *task_cur (0 = &boot_task)
    next_task_id,      \* static int next_task_id
    scheduler_tick,    \* static int scheduler_tick
    preempt_requested, \* static volatile int preempt_requested
    wait_list,         \* static struct event_waiter *wait_list, head first
    pc,                \* context -> where it executes or is suspended
    lastop,            \* history: the operation that produced this state
    cascade,           \* history: the outstanding cascading kill
    lost_wakes,        \* history: the events a wake-up was lost for
    run_count,         \* id -> struct task.run_count
    yields             \* history: schedule() calls made with two tasks alive

VARIABLES
    page_bitmap,       \* page index -> bit of page_bitmap (TRUE = used)
    km_mem,            \* address -> the struct km_header stored there
    free_list,         \* static struct km_header *free_list
    km_live,           \* the pointers kmalloc returned that are not freed yet
    km_freed,          \* the small pointers freed and not handed out since
    km_op,             \* history: the last allocator call and its result
    pa_live,           \* the <<ptr, count>> ranges palloc callers hold
    pa_ret,            \* history: the last page allocator call and its result
    scn                \* the coalescing scenario: inputs, pointers, step

VARIABLES
    pty_buf,           \* struct pty.in_buf
    pty_head,          \* struct pty.in_h
    pty_tail,          \* struct pty.in_t
    pty_io             \* the bytes to write, the bytes written, the bytes read

VARIABLES
    pty_out,           \* struct pty.out_buf, out_h, out_t
    gl,                \* the pty_getline call: position, i, buf, max_len
    wm                 \* the statics of wm.c and the windows on the heap

VARIABLES
    inq,               \* the statics of input.c and the last input_push_event
    gpu                \* the statics of virtio.c and the GPU device

VARIABLES
    irqm,              \* PSTATE.I and the sched_flags of each context
    stk,               \* id -> the stack of the task: guard, canary, saved SP
    kbd,               \* shift_state, caps_lock, the focused window's tty
    evq,               \* key_queue and mouse_queue of input.c, the last ring call
    tmr,               \* the statics of timer.c and the counter
    vq                 \* the event queue of a virtio input device

\* The state of the other subsystems, which the scheduler leaves alone.
runVars == <<run_count, yields>>
paVars == <<pa_live, pa_ret>>
heapVars == <<page_bitmap, km_mem, free_list, km_live, km_freed, km_op,
              paVars, scn>>
ptyVars == <<pty_buf, pty_head, pty_tail, pty_io>>
hwVars == <<irqm, stk, tmr, vq, kbd, evq>>
devVars == <<inq, gpu, hwVars>>
uiVars == <<pty_out, gl, wm, devVars>>
others == <<runVars, heapVars, ptyVars, uiVars>>

vars == <<tasks, task_head, task_cur, next_task_id, scheduler_tick,
          preempt_requested, wait_list, pc, lastop, cascade, lost_wakes,
          others>>

\* A zeroed struct task (memset 0 in task_create_with_stack); also used for
\* the slot of an id that is not allocated (never created, or freed).
NoTask ==
    [fn |-> FALSE, saved_fn |-> FALSE, block_type |-> "NONE", wake_tick |-> 0,
     zombie |-> FALSE, parent_id |-> 0, next |-> 0]

\* ----------------------------------------------------------- ring walking
\* The ids met by  t = task_head; do { ... t = t->next; } while (t != task_head)
RECURSIVE RingWalk(_, _, _, _)
RingWalk(ts, head, t, fuel) ==
    IF t = 0 \/ fuel = 0 THEN <<>>
    ELSE IF ts[t].next = head THEN <<t>>
    ELSE <<t>> \o RingWalk(ts, head, ts[t].next, fuel - 1)

Ring(ts, head) == RingWalk(ts, head, head, MaxIds + 1)

SeqToSet(s) == {s[i] : i \in 1..Len(s)}

RingSet(ts, head) == SeqToSet(Ring(ts, head))

task_exists(ts, head, id) == id \in RingSet(ts, head)

task_current_id == task_cur

\* ------------------------------------------------------- zombies and kill
\* t->zombie = 1; t->fn = NULL;
MarkZombie(ts, t) == [ts EXCEPT ![t].zombie = TRUE, ![t].fn = FALSE]

\* The loop of kill_children_of over the ring, from position i on.  The
\* recursive call descends into a child only when it marks it, that is only
\* when the child was not a zombie already.
RECURSIVE kill_children_scan(_, _, _, _)
kill_children_scan(ts, ring, parent_id, i) ==
    IF i > Len(ring) THEN ts
    ELSE LET t == ring[i] IN
         IF ts[t].parent_id = parent_id /\ t # parent_id /\ ~ts[t].zombie
         THEN kill_children_scan(
                  kill_children_scan(MarkZombie(ts, t), ring, t, 1),
                  ring, parent_id, i + 1)
         ELSE kill_children_scan(ts, ring, parent_id, i + 1)

kill_children_of(ts, head, parent_id) ==
    IF head = 0 THEN ts
    ELSE kill_children_scan(ts, Ring(ts, head), parent_id, 1)

\* The waiter nodes reap_zombies leaves after freeing task zombie_id.
DropWaitersOf(wl, zombie_id) == SelectSeq(wl, LAMBDA w : w.task_id # zombie_id)

\* Fault: the scan of reap_zombies without its  t != task_cur  test.
ReapableAlsoCurrent(ts, t) == ts[t].zombie

\* Whether the inner scan of reap_zombies stops at t: a zombie that is not the
\* current context.
Reapable(ts, t) == ts[t].zombie /\ t # task_cur

\* One pass of the outer while (found) loop of reap_zombies: the first
\* reapable zombie in ring order is unlinked and freed, its children are
\* marked, its waiter nodes are dropped, and the scan restarts.
RECURSIVE reap_loop(_, _, _, _)
reap_loop(ts, head, wl, fuel) ==
    LET ring == Ring(ts, head)
        hits == {i \in 1..Len(ring) : Reapable(ts, ring[i])}
    IN  IF head = 0 \/ hits = {} \/ fuel = 0
        THEN [ts |-> ts, head |-> head, wl |-> wl]
        ELSE LET i == CHOOSE k \in hits : \A j \in hits : k <= j
                 t == ring[i]
                 tail == ring[Len(ring)]
                 ts1 == kill_children_of(ts, head, t)
                 ts2 == IF ts1[t].next = t THEN ts1
                        ELSE IF t = head
                             THEN [ts1 EXCEPT ![tail].next = ts1[t].next]
                             ELSE [ts1 EXCEPT ![ring[i - 1]].next = ts1[t].next]
                 head2 == IF ts1[t].next = t THEN 0
                          ELSE IF t = head THEN ts1[t].next ELSE head
             IN  reap_loop([ts2 EXCEPT ![t] = NoTask], head2,
                           DropWaitersOf(wl, t), fuel - 1)

\* Fault: reap_zombies freeing nothing.
reap_nothing(ts, head, wl) == [ts |-> ts, head |-> head, wl |-> wl]

reap_zombies(ts, head, wl) == reap_loop(ts, head, wl, MaxIds + 1)

\* ------------------------------------------------------------ wake-ups
\* The body both wake paths share:
\*   if (t->fn == NULL && t->saved_fn != NULL) { fn = saved_fn; ... }
Restore(ts, t) ==
    [ts EXCEPT ![t].fn = TRUE, ![t].saved_fn = FALSE, ![t].block_type = "NONE"]

\* Fault: the wake test of scheduler_tick_advance without its wake_tick
\* comparison.
TimerDueAtOnce(ts, t, tick) ==
    ~ts[t].fn /\ ts[t].saved_fn /\ ts[t].block_type = "TIMER"

\* The wake test of scheduler_tick_advance.
TimerDue(ts, t, tick) ==
    /\ ~ts[t].fn /\ ts[t].saved_fn
    /\ ts[t].block_type = "TIMER"
    /\ ts[t].wake_tick <= tick

\* The task structs after scheduler_tick_advance has walked the ring with
\* scheduler_tick already advanced to tick.
tick_wake(ts, head, tick) ==
    [t \in TaskIds |->
        IF t \in RingSet(ts, head) /\ TimerDue(ts, t, tick)
        THEN Restore(ts, t)[t] ELSE ts[t]]

\* scheduler_tick_advance(delta_ms): the new tick and the task structs.
scheduler_tick_advance(ts, head, tick, delta_ms) ==
    IF delta_ms = 0 THEN [ts |-> ts, tick |-> tick]
    ELSE [ts |-> tick_wake(ts, head, tick + delta_ms), tick |-> tick + delta_ms]

\* The wake test of task_wake_event for the owner of a matching waiter.
EventWakeable(ts, head, t) ==
    t \in RingSet(ts, head) /\ ~ts[t].fn /\ ts[t].saved_fn

\* The while (curr) loop of task_wake_event from position i of the list on:
\* a matching node wakes its owner and is unlinked and freed.
RECURSIVE wake_scan(_, _, _, _, _)
wake_scan(ts, head, wl, event_id, i) ==
    IF i > Len(wl) THEN [ts |-> ts, wl |-> wl]
    ELSE IF wl[i].event_id = event_id
         THEN wake_scan(
                  IF EventWakeable(ts, head, wl[i].task_id)
                  THEN Restore(ts, wl[i].task_id) ELSE ts,
                  head,
                  SubSeq(wl, 1, i - 1) \o SubSeq(wl, i + 1, Len(wl)),
                  event_id, i)
         ELSE wake_scan(ts, head, wl, event_id, i + 1)

task_wake_event(ts, head, wl, event_id) == wake_scan(ts, head, wl, event_id, 1)

\* The wake_event calls of one successful input_push_event, in call order:
\* a keyboard key wakes WM, anything else wakes MOUSE and then WM.
PushWakes(poll) ==
    IF poll = "key" THEN <<"WM">>
    ELSE IF poll = "mouse" THEN <<"MOUSE", "WM">>
    ELSE <<>>

RECURSIVE wake_all(_, _, _, _)
wake_all(ts, head, wl, evs) ==
    IF evs = <<>> THEN [ts |-> ts, wl |-> wl]
    ELSE LET r == task_wake_event(ts, head, wl, Head(evs))
         IN  wake_all(r.ts, head, r.wl, Tail(evs))

\* irq_poll_and_dispatch: no handler is registered for the UART line, so its
\* effect is that of virtio_input_poll handing the polled event to
\* input_push_event ("none": nothing pending, or the push was dropped).
irq_poll_and_dispatch(ts, head, wl, poll) == wake_all(ts, head, wl, PushWakes(poll))

\* ------------------------------------------------------------- schedule
\* while (next && next->fn == NULL && attempts < 1000) { next = next->next;
\*     attempts++; if (next == start) break; }
RECURSIVE skip_blocked(_, _, _, _)
skip_blocked(ts, start, next, fuel) ==
    IF next = 0 \/ ts[next].fn \/ fuel = 0 THEN next
    ELSE IF ts[next].next = start THEN start
    ELSE skip_blocked(ts, start, ts[next].next, fuel - 1)

\* A selection that never switches when a single task is runnable.
pick_next_single_stays(ts, head, prev) ==
    LET runnable == {t \in RingSet(ts, head) : ts[t].fn}
        start == IF prev = BOOT THEN head ELSE ts[prev].next
        next == skip_blocked(ts, start, start, MaxIds + 1)
    IN  IF Cardinality(runnable) <= 1 THEN 0
        ELSE IF next = 0 \/ ~ts[next].fn \/ next = prev THEN 0
        ELSE next

\* A selection that never leaves a task once it runs.
pick_next_stuck(ts, head, prev) ==
    IF prev = BOOT /\ ts[head].fn THEN head ELSE 0

\* The task schedule() switches to, 0 when it returns without a switch.
\* prev is task_cur; the ring is not empty.
pick_next(ts, head, prev) ==
    LET ring == Ring(ts, head)
        start == IF prev = BOOT THEN head ELSE ts[prev].next
        runnable == {i \in 1..Len(ring) : ts[ring[i]].fn}
        last_runnable == ring[CHOOSE k \in runnable : \A j \in runnable : j <= k]
        next == IF Cardinality(runnable) = 1 THEN last_runnable
                ELSE skip_blocked(ts, start, start, MaxIds + 1)
    IN  IF runnable = {} THEN 0
        ELSE IF Cardinality(runnable) = 1 /\ prev = last_runnable THEN 0
        ELSE IF next = 0 \/ ~ts[next].fn THEN 0
        ELSE IF next = prev THEN 0
        ELSE next

\* schedule() up to the context switch: reap, timer poll (the clock moved on
\* by delta ms since the last poll), input poll, selection.
schedule(ts, head, wl, tick, delta, poll) ==
    LET r == reap_zombies(ts, head, wl)
        a == scheduler_tick_advance(r.ts, r.head, tick, delta)
        d == irq_poll_and_dispatch(a.ts, r.head, r.wl, poll)
    IN  [ts |-> d.ts, head |-> r.head, wl |-> d.wl, tick |-> a.tick,
         next |-> IF r.head = 0 THEN 0 ELSE pick_next(d.ts, r.head, task_cur),
         reaped |-> RingSet(ts, head) \ RingSet(r.ts, r.head)]

\* Where a context continues when cpu_switch_to loads it: a new task enters
\* its function through ret_from_fork, a task suspended in task_exit goes on
\* to for(;;) yield(), any other call returns to the task's code.
Resume(where) ==
    IF where = "in_exit" THEN "exit_loop" ELSE "run"

\* The clock has moved on by delta ms since the last timer poll.
Deltas == 0..(MaxTick - scheduler_tick)

\* The wake ticks passed to task_block_current_until: one the clock reaches
\* and one beyond the last tick it reaches.
WakeTicks == MaxTick..(MaxTick + 1)

\* The state after a call of schedule() by the current context: suspended is
\* where the caller stays while switched out, stay where it continues when
\* schedule() returns without a switch.
AfterSchedule(s, suspended, stay) ==
    /\ tasks' = s.ts
    /\ task_head' = s.head
    /\ wait_list' = s.wl
    /\ scheduler_tick' = s.tick
    /\ task_cur' = IF s.next = 0 THEN task_cur ELSE s.next
    /\ pc' = [x \in DOMAIN pc |->
                IF x \in s.reaped THEN "none"
                ELSE IF x = s.next /\ s.next # 0 THEN Resume(pc[x])
                ELSE IF x = task_cur THEN (IF s.next = 0 THEN stay ELSE suspended)
                ELSE pc[x]]

\* ------------------------------------------------------ task operations
Running == task_cur # BOOT /\ pc[task_cur] = "run"

\* A link step that leaves the new task pointing at itself.
InsertUnlinked(ts, head, t) == [ts EXCEPT ![t].next = t]

\* The ring after task_create_with_stack has linked task t in.
Insert(ts, head, t) ==
    IF head = 0 THEN [ts EXCEPT ![t].next = t]
    ELSE [ts EXCEPT ![t].next = ts[head].next, ![head].next = t]

\* A struct whose parent is left at the memset value.
NewTaskOrphan == [NoTask EXCEPT !.fn = TRUE]

\* The struct task_create_with_stack fills in.
NewTask == [NoTask EXCEPT !.fn = TRUE, !.parent_id = task_current_id]

\* task_create_with_stack, both allocations succeeding; cap bounds the ids.
Create(cap) ==
    LET t == next_task_id
    IN  /\ next_task_id <= cap
        /\ tasks' = Insert([tasks EXCEPT ![t] = NewTask], task_head, t)
        /\ task_head' = IF task_head = 0 THEN t ELSE task_head
        /\ next_task_id' = next_task_id + 1
        /\ pc' = [pc EXCEPT ![t] = "new",
                            ![task_cur] = IF task_cur = BOOT THEN "boot_loop" ELSE @]
        /\ UNCHANGED <<task_cur, scheduler_tick, preempt_requested, wait_list>>

TaskCreate == Running /\ Create(MaxTasks)

TaskCreateK == Running /\ Create(MaxKillTasks)

\* task_create_with_stack when kmalloc returns NULL: return -1.
TaskCreateNoMem ==
    /\ Running
    /\ UNCHANGED <<tasks, task_head, task_cur, next_task_id, scheduler_tick,
                   preempt_requested, wait_list, pc>>

\* yield()
Yield(delta, poll) ==
    /\ Running
    /\ AfterSchedule(schedule(tasks, task_head, wait_list, scheduler_tick,
                              delta, poll), "in_sched", "run")
    /\ UNCHANGED <<next_task_id, preempt_requested>>

\* The structs after task_kill has marked its target and the descendants.
KillMark(ts, head, id) == kill_children_of(MarkZombie(ts, id), head, id)

\* Whether task_kill(id) gets as far as marking its target.
KillMarks(id) == id > 0 /\ task_exists(tasks, task_head, id) /\ ~tasks[id].zombie

\* task_kill(id)
TaskKill(id, delta, poll) ==
    /\ Running
    /\ IF ~KillMarks(id)
       THEN UNCHANGED <<tasks, task_head, task_cur, scheduler_tick, wait_list, pc>>
       ELSE IF id # task_cur
       THEN /\ tasks' = KillMark(tasks, task_head, id)
            /\ UNCHANGED <<task_head, task_cur, scheduler_tick, wait_list, pc>>
       ELSE AfterSchedule(schedule(KillMark(tasks, task_head, id), task_head,
                                   wait_list, scheduler_tick, delta, poll),
                          "in_sched", "run")
    /\ UNCHANGED <<next_task_id, preempt_requested>>

\* task_exit(code), also entered when a task's function returns.
TaskExit(delta, poll) ==
    /\ Running
    /\ AfterSchedule(schedule(MarkZombie(tasks, task_cur), task_head, wait_list,
                              scheduler_tick, delta, poll),
                     "in_exit", "exit_loop")
    /\ UNCHANGED <<next_task_id, preempt_requested>>

\* for(;;) yield();  at the end of task_exit
ExitLoopYield(delta, poll) ==
    /\ task_cur # BOOT /\ pc[task_cur] = "exit_loop"
    /\ AfterSchedule(schedule(tasks, task_head, wait_list, scheduler_tick,
                              delta, poll), "in_exit", "exit_loop")
    /\ UNCHANGED <<next_task_id, preempt_requested>>

\* The structs after a blocking call has moved the caller's fn aside.
Block(ts, t, type) ==
    [ts EXCEPT ![t].saved_fn = ts[t].fn, ![t].fn = FALSE, ![t].block_type = type]

\* task_block_current_until(wake_tick)
BlockUntil(wake_tick, delta, poll) ==
    /\ Running
    /\ AfterSchedule(schedule([Block(tasks, task_cur, "TIMER") EXCEPT
                                   ![task_cur].wake_tick = wake_tick],
                              task_head, wait_list, scheduler_tick, delta, poll),
                     "in_sched", "run")
    /\ UNCHANGED <<next_task_id, preempt_requested>>

\* task_wait_event, first half: the call of kmalloc(sizeof(*w)).  IRQs are not
\* masked here, so an interrupt can arrive while the allocator is running.
WaitEventEnter ==
    /\ Running
    /\ Len(wait_list) < MaxWaiters
    /\ pc' = [pc EXCEPT ![task_cur] = "in_kmalloc"]
    /\ UNCHANGED <<tasks, task_head, task_cur, next_task_id, scheduler_tick,
                   preempt_requested, wait_list>>

InKmalloc == task_cur # BOOT /\ pc[task_cur] = "in_kmalloc"

\* task_wait_event when kmalloc returns NULL: return without blocking.
WaitEventNoMem ==
    /\ InKmalloc
    /\ pc' = [pc EXCEPT ![task_cur] = "run"]
    /\ UNCHANGED <<tasks, task_head, task_cur, next_task_id, scheduler_tick,
                   preempt_requested, wait_list>>

\* The waiter list after task_wait_event has linked its node in.
AddWaiter(wl, t, event_id) == <<[task_id |-> t, event_id |-> event_id]>> \o wl

\* task_wait_event(event_id), from the return of kmalloc on: the waiter node
\* goes to the front of the list, fn is moved aside, schedule().
WaitEvent(event_id, delta, poll) ==
    /\ InKmalloc
    /\ AfterSchedule(schedule(Block(tasks, task_cur, "EVENT"), task_head,
                              AddWaiter(wait_list, task_cur, event_id),
                              scheduler_tick, delta, poll),
                     "in_sched", "run")
    /\ UNCHANGED <<next_task_id, preempt_requested>>

\* task_wake_event(event_id) called by the running task.
WakeEvent(event_id) ==
    /\ Running
    /\ LET r == task_wake_event(tasks, task_head, wait_list, event_id)
       IN  /\ tasks' = r.ts
           /\ wait_list' = r.wl
    /\ UNCHANGED <<task_head, task_cur, next_task_id, scheduler_tick,
                   preempt_requested, pc>>

\* ------------------------------------------------------------ interrupts
\* irq_entry_c with an interrupt the GIC acknowledges: irq_dispatch finds no
\* registered handler; scheduler_request_preempt() sets the flag.
IrqEntryGic ==
    /\ preempt_requested' = 1
    /\ UNCHANGED <<tasks, task_head, task_cur, next_task_id, scheduler_tick,
                   wait_list, pc>>

\* Fault: the fallback path of irq_entry_c ending in a call of schedule().
IrqEntryTickPreempting(poll) ==
    /\ scheduler_tick < MaxTick
    /\ AfterSchedule(schedule(tasks, task_head, wait_list, scheduler_tick, 1,
                              poll), "in_sched", pc[task_cur])
    /\ preempt_requested' = 1
    /\ UNCHANGED next_task_id

\* irq_entry_c on the fallback path: scheduler_tick_advance(1), then
\* irq_poll_and_dispatch(), then scheduler_request_preempt().
IrqEntryTick(poll) ==
    /\ scheduler_tick < MaxTick
    /\ LET a == scheduler_tick_advance(tasks, task_head, scheduler_tick, 1)
           d == irq_poll_and_dispatch(a.ts, task_head, wait_list, poll)
       IN  /\ tasks' = d.ts
           /\ wait_list' = d.wl
           /\ scheduler_tick' = a.tick
    /\ preempt_requested' = 1
    /\ UNCHANGED <<task_head, task_cur, next_task_id, pc>>

\* ------------------------------------------------------------------ boot
\* kernel_main: task_create_with_stack(init_main, NULL, "init", 64)
BootCreateInit ==
    /\ task_cur = BOOT /\ pc[BOOT] = "boot"
    /\ Create(1)

\* kernel_main: while (1) schedule();
BootSchedule(delta, poll) ==
    /\ task_cur = BOOT /\ pc[BOOT] = "boot_loop"
    /\ AfterSchedule(schedule(tasks, task_head, wait_list, scheduler_tick,
                              delta, poll), "in_boot", "boot_loop")
    /\ UNCHANGED <<next_task_id, preempt_requested>>

\* ------------------------------------------------------------- observers
\* History of the last operation: its name, whether it called schedule(), the
\* events it passed to task_wake_event outside schedule(), and whether
\* task_wake_event called kfree in IRQ context.
NoOp == [op |-> "init", sched |-> FALSE, evs |-> {}, irq_kfree |-> FALSE]

\* The events one input poll wakes.
Woken(poll) == SeqToSet(PushWakes(poll))

Log(op, evs) ==
    /\ lastop' = [op |-> op, sched |-> FALSE, evs |-> evs, irq_kfree |-> FALSE]
    /\ UNCHANGED <<cascade, lost_wakes, others>>

LogSched(op) ==
    /\ lastop' = [op |-> op, sched |-> TRUE, evs |-> {}, irq_kfree |-> FALSE]
    /\ UNCHANGED <<cascade, lost_wakes, others>>

LogIrq(evs) ==
    /\ lastop' = [op |-> "irq", sched |-> FALSE, evs |-> evs,
                  irq_kfree |-> Len(wait_list') < Len(wait_list)]
    /\ UNCHANGED <<cascade, lost_wakes, others>>

\* Observer of lost wake-ups: the events for which some task_wake_event call
\* outside schedule() found no waiter node.
HasWaiter(wl, event_id) == \E i \in 1..Len(wl) : wl[i].event_id = event_id

ObsLost(evs) ==
    /\ lost_wakes' = lost_wakes \cup {e \in evs : ~HasWaiter(wait_list, e)}
    /\ UNCHANGED <<lastop, cascade, others>>

Quiet == UNCHANGED <<lastop, cascade, lost_wakes, others>>

\* Observer of the cascading-kill scenario: the victims of the last task_kill
\* that marked a child of init with two children, and the number of
\* schedule() calls since.  Idle when no such kill is outstanding.
NoCascade == [victims |-> {}, scheds |-> 0]

Children(ts, head, id) == {t \in RingSet(ts, head) : ts[t].parent_id = id /\ t # id}

\* The scenario: the target is a child of a live init (id 1) with exactly two
\* children, which have no children themselves, and none of them is a zombie.
CascadeShape(ts, head, id) ==
    /\ id # 1 /\ ts[id].parent_id = 1
    /\ task_exists(ts, head, 1) /\ ~ts[1].zombie
    /\ Cardinality(Children(ts, head, id)) = 2
    /\ \A c \in Children(ts, head, id) : Children(ts, head, c) = {}
    /\ \A t \in {id} \cup Children(ts, head, id) : ~ts[t].zombie

\* The observer after task_kill(id) in the state before the call.
CascadeKill(id) ==
    IF KillMarks(id) /\ CascadeShape(tasks, task_head, id)
    THEN [victims |-> {id} \cup Children(tasks, task_head, id), scheds |-> 0]
    ELSE cascade

\* The observer c after a schedule() call that leaves the ring of the next
\* state.
CascadeSched(c) ==
    IF c.victims \cap RingSet(tasks', task_head') = {} THEN NoCascade
    ELSE [c EXCEPT !.scheds = IF @ < 3 THEN @ + 1 ELSE @]

ObsSched == cascade' = CascadeSched(cascade) /\ UNCHANGED <<lastop, lost_wakes, others>>

ObsKill(id) ==
    /\ cascade' = IF KillMarks(id) /\ id = task_cur
                  THEN CascadeSched(CascadeKill(id)) ELSE CascadeKill(id)
    /\ UNCHANGED <<lastop, lost_wakes, others>>

\* ------------------------------------------------------- specifications
\* The allocators after palloc_init and kmalloc_init: every page free, the
\* pool zeroed, the free list empty.
NoKmOp == [op |-> "init", dfrees |-> 0, calls |-> 0]

NoPaRet == [op |-> "init", count |-> 0, ptr |-> NULL]

HeapInit ==
    /\ page_bitmap = [i \in Pages |-> FALSE]
    /\ km_mem = [a \in {} |-> ZeroHdr]
    /\ free_list = NULL
    /\ km_live = {}
    /\ km_freed = {}
    /\ km_op = NoKmOp
    /\ pa_live = {}
    /\ pa_ret = NoPaRet

\* No coalescing scenario is running.
NoScn == [sizes |-> <<>>, order |-> <<>>, ptrs |-> <<>>, step |-> 0]

\* A PTY after pty_alloc: memset(p, 0, sizeof(*p)).  pty_buf holds the slots
\* of in_buf that have been written; the others read as 0.
PtyInit ==
    /\ pty_buf = [i \in {} |-> 0]
    /\ pty_head = 0
    /\ pty_tail = 0

\* No PTY round trip is running.
NoIo == [data |-> <<>>, written |-> 0, read |-> <<>>]

\* The output ring of a PTY after pty_alloc, and no pty_getline call.
NoOut == [buf |-> [i \in {} |-> 0], h |-> 0, t |-> 0]
NoGl == [pc |-> "idle", i |-> 0, buf |-> <<>>, max_len |-> 0, nl |-> FALSE,
         ret |-> 0]

UiInit ==
    /\ pty_out = NoOut
    /\ gl = NoGl

\* No input event has arrived and the GPU driver has not been started.
HwInit ==
    /\ irqm = NoIrqm
    /\ stk = NoStk
    /\ tmr = NoTmr
    /\ vq = NoVq /\ evq = NoEvq
    /\ kbd = NoKbd

DevInit ==
    /\ inq = NoInq
    /\ gpu = NoGpu
    /\ HwInit

\* The state scheduler_init, palloc_init and kmalloc_init leave.
SchedHeapInit ==
    /\ tasks = [t \in TaskIds |-> NoTask]
    /\ task_head = 0
    /\ task_cur = BOOT
    /\ next_task_id = 1
    /\ scheduler_tick = 0
    /\ preempt_requested = 0
    /\ wait_list = <<>>
    /\ pc = [c \in 0..MaxIds |-> IF c = BOOT THEN "boot" ELSE "none"]
    /\ lastop = NoOp
    /\ cascade = NoCascade
    /\ lost_wakes = {}
    /\ run_count = [t \in TaskIds |-> 0]
    /\ yields = 0
    /\ HeapInit

\* The same with the PTY's output ring empty and no pty_getline call.
BaseInit ==
    /\ SchedHeapInit
    /\ UiInit

\* The state after boot, with a PTY just allocated and no scenario running.
Init ==
    /\ BaseInit /\ DevInit /\ scn = NoScn /\ PtyInit /\ pty_io = NoIo
    /\ wm = WmInit0

\* Every operation of the scheduler and both IRQ paths, interleaved freely.
Next ==
    \/ BootCreateInit /\ Quiet
    \/ \E delta \in Deltas, poll \in Polls : BootSchedule(delta, poll) /\ Quiet
    \/ TaskCreate /\ Quiet
    \/ TaskCreateNoMem /\ Quiet
    \/ \E delta \in Deltas, poll \in Polls : Yield(delta, poll) /\ Quiet
    \/ \E id \in 0..MaxTasks, delta \in Deltas, poll \in Polls :
          TaskKill(id, delta, poll) /\ Quiet
    \/ \E delta \in Deltas, poll \in Polls : TaskExit(delta, poll) /\ Quiet
    \/ \E delta \in Deltas, poll \in Polls : ExitLoopYield(delta, poll) /\ Quiet
    \/ \E wake_tick \in WakeTicks, delta \in Deltas, poll \in Polls :
          BlockUntil(wake_tick, delta, poll) /\ Quiet
    \/ WaitEventEnter /\ Quiet
    \/ WaitEventNoMem /\ Quiet
    \/ \E event_id \in Events, delta \in Deltas, poll \in Polls :
          WaitEvent(event_id, delta, poll) /\ Quiet
    \/ \E event_id \in Events : WakeEvent(event_id) /\ Quiet
    \/ IrqEntryGic /\ Quiet
    \/ \E poll \in Polls : IrqEntryTick(poll) /\ Quiet

Spec == Init /\ [][Next]_vars

\* The same operations with the history of the last operation recorded.
ObsNext ==
    \/ BootCreateInit /\ Log("task_create", {})
    \/ \E delta \in Deltas, poll \in Polls :
          BootSchedule(delta, poll) /\ LogSched("schedule")
    \/ TaskCreate /\ Log("task_create", {})
    \/ TaskCreateNoMem /\ Log("task_create", {})
    \/ \E delta \in Deltas, poll \in Polls :
          Yield(delta, poll) /\ LogSched("schedule")
    \/ \E id \in 0..MaxTasks, delta \in Deltas, poll \in Polls :
          TaskKill(id, delta, poll)
          /\ IF id = task_cur /\ KillMarks(id)
             THEN LogSched("task_kill") ELSE Log("task_kill", {})
    \/ \E delta \in Deltas, poll \in Polls :
          TaskExit(delta, poll) /\ LogSched("task_exit")
    \/ \E delta \in Deltas, poll \in Polls :
          ExitLoopYield(delta, poll) /\ LogSched("schedule")
    \/ \E wake_tick \in WakeTicks, delta \in Deltas, poll \in Polls :
          BlockUntil(wake_tick, delta, poll) /\ LogSched("block_until")
    \/ WaitEventEnter /\ Log("kmalloc", {})
    \/ WaitEventNoMem /\ Log("wait_event_nomem", {})
    \/ \E event_id \in Events, delta \in Deltas, poll \in Polls :
          WaitEvent(event_id, delta, poll) /\ LogSched("wait_event")
    \/ \E event_id \in Events : WakeEvent(event_id) /\ Log("wake_event", {event_id})
    \/ IrqEntryGic /\ LogIrq({})
    \/ \E poll \in Polls : IrqEntryTick(poll) /\ LogIrq(Woken(poll))

ObsSpec == Init /\ [][ObsNext]_vars

\* The same operations with the lost wake-ups recorded.
LostNext ==
    \/ BootCreateInit /\ Quiet
    \/ \E delta \in Deltas, poll \in Polls : BootSchedule(delta, poll) /\ Quiet
    \/ TaskCreate /\ Quiet
    \/ TaskCreateNoMem /\ Quiet
    \/ \E delta \in Deltas, poll \in Polls : Yield(delta, poll) /\ Quiet
    \/ \E id \in 0..MaxTasks, delta \in Deltas, poll \in Polls :
          TaskKill(id, delta, poll) /\ Quiet
    \/ \E delta \in Deltas, poll \in Polls : TaskExit(delta, poll) /\ Quiet
    \/ \E delta \in Deltas, poll \in Polls : ExitLoopYield(delta, poll) /\ Quiet
    \/ \E wake_tick \in WakeTicks, delta \in Deltas, poll \in Polls :
          BlockUntil(wake_tick, delta, poll) /\ Quiet
    \/ WaitEventEnter /\ Quiet
    \/ WaitEventNoMem /\ Quiet
    \/ \E event_id \in Events, delta \in Deltas, poll \in Polls :
          WaitEvent(event_id, delta, poll) /\ Quiet
    \/ \E event_id \in Events : WakeEvent(event_id) /\ ObsLost({event_id})
    \/ IrqEntryGic /\ Quiet
    \/ \E poll \in Polls : IrqEntryTick(poll) /\ ObsLost(Woken(poll))

LostSpec == Init /\ [][LostNext]_vars

\* Task trees: creation, yield, timed blocking, exit and kill with more tasks; no
\* task waits on an event, so the input poll has nothing to wake.
KillNext ==
    \/ BootCreateInit /\ Quiet
    \/ \E delta \in Deltas : BootSchedule(delta, "none") /\ ObsSched
    \/ TaskCreateK /\ Quiet
    \/ \E delta \in Deltas : Yield(delta, "none") /\ ObsSched
    \/ \E id \in 1..MaxKillTasks, delta \in Deltas :
          TaskKill(id, delta, "none") /\ ObsKill(id)
    \/ \E delta \in Deltas : TaskExit(delta, "none") /\ ObsSched
    \/ \E wake_tick \in WakeTicks, delta \in Deltas :
          BlockUntil(wake_tick, delta, "none") /\ ObsSched

KillSpec == Init /\ [][KillNext]_vars

\* next->run_count++ at a context switch; counted marks a call of schedule()
\* made while both tasks of the pair exist.
ObsRun(counted) ==
    /\ run_count' = IF task_cur' # task_cur
                     THEN [run_count EXCEPT ![task_cur'] = @ + 1]
                     ELSE run_count
    /\ yields' = IF counted THEN yields + 1 ELSE yields
    /\ UNCHANGED <<lastop, cascade, lost_wakes, heapVars, ptyVars, uiVars>>

\* A task creating the second task of a pair.
TaskCreatePair == Running /\ Create(2)

\* yield() by a task of the pair.
PairYield(delta, poll) ==
    /\ next_task_id = 3
    /\ yields < MaxYields
    /\ Yield(delta, poll)

\* Boot, then two tasks that stay runnable and do nothing but yield.
PairNext ==
    \/ BootCreateInit /\ ObsRun(FALSE)
    \/ \E delta \in Deltas, poll \in Polls :
          BootSchedule(delta, poll) /\ ObsRun(FALSE)
    \/ TaskCreatePair /\ ObsRun(FALSE)
    \/ \E delta \in Deltas, poll \in Polls :
          PairYield(delta, poll) /\ ObsRun(TRUE)

PairSpec == Init /\ [][PairNext]_vars

TypeOK ==
    /\ task_head \in 0..MaxIds
    /\ task_cur \in 0..MaxIds
    /\ next_task_id \in 1..(MaxIds + 1)
    /\ scheduler_tick \in 0..MaxTick
    /\ Len(wait_list) <= MaxWaiters

\* =========================================================== allocators
(***************************************************************************)
(* Part 2: the page allocator of src/kernel/palloc.c and the block         *)
(* allocator of src/kernel/kmalloc.c.  Addresses are byte addresses; the   *)
(* pool starts one page above address 0, which is NULL.  km_mem holds the  *)
(* headers that have been written to pool memory, stale ones included; an  *)
(* address that holds none reads as zeroes.                                *)
(***************************************************************************)
\* ------------------------------------------------------------- palloc.c
\* A scan that does not restart its count at a used page.
RECURSIVE contig_scan_noreset(_, _, _, _, _)
contig_scan_noreset(bm, count, i, consecutive, start_idx) ==
    IF i >= MaxPages THEN -1
    ELSE IF ~bm[i]
         THEN LET start == IF consecutive = 0 THEN i ELSE start_idx
              IN  IF consecutive + 1 = count THEN start
                  ELSE contig_scan_noreset(bm, count, i + 1, consecutive + 1, start)
         ELSE contig_scan_noreset(bm, count, i + 1, consecutive, start_idx)

\* The scan of palloc_alloc_contig from page i on: the index of the first
\* window of count free pages, -1 when there is none.
RECURSIVE contig_scan(_, _, _, _, _)
contig_scan(bm, count, i, consecutive, start_idx) ==
    IF i >= MaxPages THEN -1
    ELSE IF ~bm[i]
         THEN LET start == IF consecutive = 0 THEN i ELSE start_idx
              IN  IF consecutive + 1 = count THEN start
                  ELSE contig_scan(bm, count, i + 1, consecutive + 1, start)
         ELSE contig_scan(bm, count, i + 1, 0, start_idx)

\* palloc_alloc_contig: the bitmap afterwards and the pointer returned.
palloc_alloc_contig(bm, count) ==
    LET start == IF MaxPages = 0 \/ count = 0 \/ count > MaxPages THEN -1
                 ELSE contig_scan(bm, count, 0, 0, 0)
    IN  IF start = -1 THEN [bm |-> bm, ptr |-> NULL]
        ELSE [bm |-> [i \in Pages |-> bm[i] \/ (start <= i /\ i < start + count)],
              ptr |-> PageAddr(start)]

\* palloc_free: the bitmap afterwards.
palloc_free(bm, ptr, count) ==
    LET offset == ptr - PoolStart
        idx == offset \div PAGE_SIZE
    IN  IF ptr = NULL \/ count = 0 THEN bm
        ELSE IF offset % PAGE_SIZE # 0 THEN bm
        ELSE IF idx + count > MaxPages THEN bm
        ELSE [i \in Pages |-> bm[i] /\ ~(idx <= i /\ i < idx + count)]

\* ------------------------------------------------------------ kmalloc.c
\* The struct km_header read at address a.
Read(mem, a) == IF a \in DOMAIN mem THEN mem[a] ELSE ZeroHdr

\* Memory after the header at address a has been written.
Write(mem, a, h) == [x \in DOMAIN mem \cup {a} |-> IF x = a THEN h ELSE mem[x]]

\* Memory after memset(ptr, 0, count * PAGE_SIZE).
ZeroPages(mem, ptr, count) ==
    [x \in {a \in DOMAIN mem : a < ptr \/ a >= ptr + count * PAGE_SIZE} |-> mem[x]]

\* The walks stop after more steps than there are headers in memory: only a
\* cyclic list takes that many (the code's bound of 10000 is never reached
\* by a list without a cycle in a pool of this size).
Fuel(mem) == Cardinality(DOMAIN mem) + 1

\* *prev = x, where prev = NULL stands for &free_list.
SetLink(st, prev, x) ==
    IF prev = NULL THEN [st EXCEPT !.fl = x]
    ELSE [st EXCEPT !.mem = Write(st.mem, prev, [Read(st.mem, prev) EXCEPT !.next = x])]

\* while (cur && limit-- > 0) { if (cur->size >= size) ...; prev = &cur->next;
\*     cur = cur->next; }: the block found (cur = NULL: none).
RECURSIVE km_fit(_, _, _, _, _)
km_fit(mem, prev, cur, size, fuel) ==
    IF cur = NULL THEN [prev |-> prev, cur |-> NULL, cycle |-> FALSE]
    ELSE IF fuel = 0 THEN [prev |-> prev, cur |-> NULL, cycle |-> TRUE]
    ELSE IF Read(mem, cur).size >= size
         THEN [prev |-> prev, cur |-> cur, cycle |-> FALSE]
    ELSE km_fit(mem, cur, Read(mem, cur).next, size, fuel - 1)

\* cur->is_large = 0
km_clear_large(st, cur) ==
    [st EXCEPT !.mem = Write(st.mem, cur, [Read(st.mem, cur) EXCEPT !.is_large = 0])]

\* The split: the remainder becomes a block of its own at new_block and
\* replaces cur in the list; c is the header of cur before the split.
km_split(st, prev, cur, size, c, new_block, rest) ==
    SetLink([st EXCEPT !.mem =
                 Write(Write(st.mem, new_block,
                             [size |-> rest, is_large |-> 0, next |-> c.next]),
                       cur, [Read(Write(st.mem, new_block,
                                        [size |-> rest, is_large |-> 0,
                                         next |-> c.next]), cur)
                             EXCEPT !.size = size])],
            prev, new_block)

\* A split that starts the remainder without leaving room for the header
\* of the block handed out.
km_take_overlapping(st, prev, cur, size) ==
    km_clear_large(km_split(st, prev, cur, size, Read(st.mem, cur), cur + size,
                            Read(st.mem, cur).size - size), cur)

\* The block at cur taken off the free list for a request of size bytes:
\* split when the remainder can hold a header and 16 bytes, else whole.
km_take(st, prev, cur, size) ==
    km_clear_large(
        IF Read(st.mem, cur).size >= size + HDR + 16
        THEN km_split(st, prev, cur, size, Read(st.mem, cur), cur + HDR + size,
                      Read(st.mem, cur).size - size - HDR)
        ELSE SetLink(st, prev, Read(st.mem, cur).next),
        cur)

\* while (cur && cur < h) { prev = &cur->next; cur = cur->next; }
RECURSIVE kfree_pos(_, _, _, _, _)
kfree_pos(mem, prev, cur, h, fuel) ==
    IF cur = NULL \/ cur >= h THEN [prev |-> prev, cur |-> cur, hung |-> FALSE]
    ELSE IF fuel = 0 THEN [prev |-> prev, cur |-> cur, hung |-> TRUE]
    ELSE kfree_pos(mem, cur, Read(mem, cur).next, h, fuel - 1)

\* A search that never finds the block before h.
kfree_pred_none(mem, p, h, fuel) == [p |-> NULL, hung |-> FALSE]

\* while (p && p->next != h) p = p->next;
RECURSIVE kfree_pred(_, _, _, _)
kfree_pred(mem, p, h, fuel) ==
    IF p = NULL \/ Read(mem, p).next = h THEN [p |-> p, hung |-> FALSE]
    ELSE IF fuel = 0 THEN [p |-> p, hung |-> TRUE]
    ELSE kfree_pred(mem, Read(mem, p).next, h, fuel - 1)

\* h->next = cur; *prev = h;
kfree_insert(st, h, prev, cur) ==
    SetLink([st EXCEPT !.mem = Write(st.mem, h, [Read(st.mem, h) EXCEPT !.next = cur])],
            prev, h)

\* Coalesce with the next block: hd and nx are the headers of h and h->next.
kfree_merge_next(st, h, hd, nx) ==
    IF hd.next # NULL /\ h + HDR + hd.size = hd.next
    THEN [st EXCEPT !.mem = Write(st.mem, h,
             [hd EXCEPT !.size = hd.size + HDR + nx.size, !.next = nx.next])]
    ELSE st

\* Coalesce with the previous block: p is the block whose next is h (NULL:
\* none), pd and hd are the headers of p and h.
kfree_merge_prev(st, h, p, pd, hd) ==
    IF p # NULL /\ p + HDR + pd.size = h
    THEN [st EXCEPT !.mem = Write(st.mem, p,
             [pd EXCEPT !.size = pd.size + HDR + hd.size, !.next = hd.next])]
    ELSE st

\* The end of kfree: st is the state after the merge with the next block,
\* pr the result of the walk to the predecessor of h.
kfree_tail(st, h, pr) ==
    IF st.fl = h THEN [st |-> st, detected |-> FALSE, hung |-> FALSE]
    ELSE IF pr.hung THEN [st |-> st, detected |-> FALSE, hung |-> TRUE]
    ELSE [st |-> kfree_merge_prev(st, h, pr.p, Read(st.mem, pr.p), Read(st.mem, h)),
          detected |-> FALSE, hung |-> FALSE]

kfree_after_next(st, h) ==
    kfree_tail(st, h, kfree_pred(st.mem, st.fl, h, Fuel(st.mem)))

kfree_after_insert(st, h) ==
    kfree_after_next(
        kfree_merge_next(st, h, Read(st.mem, h), Read(st.mem, Read(st.mem, h).next)), h)

\* kfree of a small block: pos is the insertion point found.
kfree_small(st, h, pos) ==
    IF pos.hung THEN [st |-> st, detected |-> FALSE, hung |-> TRUE]
    ELSE IF pos.cur = h THEN [st |-> st, detected |-> TRUE, hung |-> FALSE]
    ELSE kfree_after_insert(kfree_insert(st, h, pos.prev, pos.cur), h)

\* kfree(ptr): the allocator state afterwards; detected: the double-free
\* warning was printed; hung: a walk of the free list does not terminate.
kfree(st, ptr) ==
    IF ptr = NULL THEN [st |-> st, detected |-> FALSE, hung |-> FALSE]
    ELSE IF Read(st.mem, ptr - HDR).is_large > 0
         THEN [st |-> [st EXCEPT !.bm = palloc_free(st.bm, ptr - HDR,
                                                      Read(st.mem, ptr - HDR).is_large)],
               detected |-> FALSE, hung |-> FALSE]
    ELSE kfree_small(st, ptr - HDR,
                     kfree_pos(st.mem, NULL, st.fl, ptr - HDR, Fuel(st.mem)))

\* The rest of km_expand_small: a is what palloc_alloc returned.
km_expand_page(st, a) ==
    IF a.ptr = NULL THEN [st |-> st, detected |-> FALSE, hung |-> FALSE]
    ELSE kfree([st EXCEPT !.bm = a.bm,
                          !.mem = Write(ZeroPages(st.mem, a.ptr, 1), a.ptr,
                                        [size |-> PAGE_SIZE - HDR, is_large |-> 0,
                                         next |-> NULL])],
               a.ptr + HDR)

\* km_expand_small: one fresh page wrapped in a header and freed.
km_expand_small(st) == km_expand_page(st, palloc_alloc_contig(st.bm, 1))

\* The size kmalloc works with: (size + 15) & ~15.
AlignUp(size) == ((size + 15) \div 16) * 16

\* The large regime: a is what palloc_alloc_contig(pages) returned.
kmalloc_large(st, sz, pages, a) ==
    IF a.ptr = NULL THEN [st |-> st, ptr |-> NULL, hung |-> FALSE]
    ELSE [st |-> [st EXCEPT !.bm = a.bm,
                    !.mem = Write(ZeroPages(st.mem, a.ptr, pages), a.ptr,
                                  [size |-> sz, is_large |-> pages, next |-> NULL])],
          ptr |-> a.ptr + HDR, hung |-> FALSE]

\* The second search, after km_expand_small: while (cur) has no bound.
kmalloc_second(st, sz, f) ==
    IF f.cycle THEN [st |-> st, ptr |-> NULL, hung |-> TRUE]
    ELSE IF f.cur # NULL
         THEN [st |-> km_take(st, f.prev, f.cur, sz), ptr |-> f.cur + HDR,
               hung |-> FALSE]
    ELSE [st |-> st, ptr |-> NULL, hung |-> FALSE]

kmalloc_expanded(e, sz) ==
    IF e.hung THEN [st |-> e.st, ptr |-> NULL, hung |-> TRUE]
    ELSE kmalloc_second(e.st, sz, km_fit(e.st.mem, NULL, e.st.fl, sz, Fuel(e.st.mem)))

\* The small regime: f is the result of the first search.
kmalloc_small(st, sz, f) ==
    IF f.cur # NULL
    THEN [st |-> km_take(st, f.prev, f.cur, sz), ptr |-> f.cur + HDR, hung |-> FALSE]
    ELSE IF f.cycle THEN [st |-> st, ptr |-> NULL, hung |-> FALSE]
    ELSE kmalloc_expanded(km_expand_small(st), sz)

kmalloc_aligned(st, sz, pages) ==
    IF sz + HDR > PAGE_SIZE
    THEN kmalloc_large(st, sz, pages, palloc_alloc_contig(st.bm, pages))
    ELSE kmalloc_small(st, sz, km_fit(st.mem, NULL, st.fl, sz, Fuel(st.mem)))

\* kmalloc(size): the allocator state afterwards and the pointer returned.
kmalloc(st, size) ==
    IF size = 0 THEN [st |-> st, ptr |-> NULL, hung |-> FALSE]
    ELSE kmalloc_aligned(st, AlignUp(size),
                         (AlignUp(size) + HDR + PAGE_SIZE - 1) \div PAGE_SIZE)

\* ----------------------------------------------------- allocator calls
\* The request sizes of the callers: the smallest request, the size of the
\* coalescing scenario, one that takes a fresh page whole, one that is large.
KmSizes == {1, 64, 4040, 5000}

HeapSt == [bm |-> page_bitmap, mem |-> km_mem, fl |-> free_list]

SetHeap(st) ==
    /\ page_bitmap' = st.bm
    /\ km_mem' = st.mem
    /\ free_list' = st.fl

\* The bytes of the block with header at h: header and payload.
BlockRange(mem, h) == h..(h + HDR + Read(mem, h).size - 1)

\* The history after a call: a walk that does not terminate hangs the kernel.
KmLog(op, hung, counted) ==
    km_op' = [op |-> IF hung THEN "hung" ELSE op,
              dfrees |-> km_op.dfrees + (IF op = "dfree" THEN 1 ELSE 0),
              calls |-> km_op.calls + (IF counted THEN 1 ELSE 0)]

\* The blocks of the free list, in list order (a cyclic list is cut off).
RECURSIVE FreeSeq(_, _, _)
FreeSeq(mem, cur, fuel) ==
    IF cur = NULL \/ fuel = 0 THEN <<>>
    ELSE <<cur>> \o FreeSeq(mem, Read(mem, cur).next, fuel - 1)

FreeBlocks(mem, fl) == SeqToSet(FreeSeq(mem, fl, Fuel(mem)))

\* Memory without the stale headers: callers that free live pointers only
\* never make the allocator read one, so with stale = FALSE they are
\* forgotten and the pointers freed are not recorded.
Forget(st, live, stale) ==
    IF stale THEN st
    ELSE [st EXCEPT !.mem = [a \in (FreeBlocks(st.mem, st.fl) \cup {p - HDR : p \in live})
                                \cap DOMAIN st.mem |-> st.mem[a]]]

\* p = kmalloc(size) by a caller that keeps the pointer.
KMalloc(size, stale) ==
    LET r == kmalloc(HeapSt, size)
        live == IF r.ptr = NULL THEN km_live ELSE km_live \cup {r.ptr}
    IN  /\ km_op.op # "hung"
        /\ Cardinality(km_live) < MaxLive
        /\ SetHeap(Forget(r.st, live, stale))
        /\ km_live' = live
        /\ km_freed' = IF r.ptr = NULL THEN km_freed
                       ELSE {f \in km_freed :
                               f - HDR \notin BlockRange(r.st.mem, r.ptr - HDR)}
        /\ KmLog("kmalloc", r.hung, stale)
        /\ UNCHANGED <<paVars, scn>>

\* kfree(p) of a pointer the caller holds.
KFree(p, stale) ==
    LET r == kfree(HeapSt, p)
    IN  /\ km_op.op # "hung"
        /\ p \in km_live
        /\ SetHeap(Forget(r.st, km_live \ {p}, stale))
        /\ km_live' = km_live \ {p}
        /\ km_freed' = IF Read(km_mem, p - HDR).is_large > 0 \/ ~stale THEN km_freed
                       ELSE km_freed \cup {p}
        /\ KmLog("kfree", r.hung, stale)
        /\ UNCHANGED <<paVars, scn>>

\* kfree(p) of a small pointer that was freed and not handed out since.
KFreeAgain(p) ==
    LET r == kfree(HeapSt, p)
    IN  /\ km_op.op # "hung"
        /\ p \in km_freed
        /\ SetHeap(r.st)
        /\ KmLog("dfree", r.hung, TRUE)
        /\ UNCHANGED <<km_live, km_freed, paVars, scn>>

\* The scheduler and the PTY are idle while the allocators are exercised.
schedVars == <<tasks, task_head, task_cur, next_task_id, scheduler_tick,
               preempt_requested, wait_list, pc, lastop, cascade, lost_wakes,
               runVars>>

\* kmalloc and kfree called correctly: every kfree frees a live pointer.
HeapNext ==
    \/ \E size \in KmSizes : KMalloc(size, FALSE) /\ UNCHANGED <<schedVars, ptyVars, uiVars>>
    \/ \E p \in km_live : KFree(p, FALSE) /\ UNCHANGED <<schedVars, ptyVars, uiVars>>

HeapSpec == Init /\ [][HeapNext]_vars

\* The same with callers that free a pointer twice, in runs of a capped
\* number of calls; the stale headers stay in memory.
DfNext ==
    \/ \E size \in KmSizes :
          km_op.calls < MaxCalls /\ KMalloc(size, TRUE)
          /\ UNCHANGED <<schedVars, ptyVars, uiVars>>
    \/ \E p \in km_live :
          km_op.calls < MaxCalls /\ KFree(p, TRUE)
          /\ UNCHANGED <<schedVars, ptyVars, uiVars>>
    \/ \E p \in km_freed :
          km_op.calls < MaxCalls /\ km_op.dfrees < MaxDoubleFrees /\ KFreeAgain(p)
          /\ UNCHANGED <<schedVars, ptyVars, uiVars>>

DfSpec == Init /\ [][DfNext]_vars

\* ------------------------------------------------ page allocator calls
\* The page counts callers ask for: none, every count the pool can hold,
\* and one page more than the pool has.
PaCounts == 0..(MaxPages + 1)

\* ptr = palloc_alloc_contig(count) by a caller that keeps the range.
PallocAlloc(count) ==
    LET r == palloc_alloc_contig(page_bitmap, count)
    IN  /\ page_bitmap' = r.bm
        /\ km_mem' = IF r.ptr = NULL THEN km_mem ELSE ZeroPages(km_mem, r.ptr, count)
        /\ pa_live' = IF r.ptr = NULL THEN pa_live ELSE pa_live \cup {<<r.ptr, count>>}
        /\ pa_ret' = [op |-> "alloc", count |-> count, ptr |-> r.ptr]
        /\ UNCHANGED <<free_list, km_live, km_freed, km_op, scn>>

\* palloc_free(ptr, count) of a range the caller holds.
PallocFree(ptr, count) ==
    /\ <<ptr, count>> \in pa_live
    /\ page_bitmap' = palloc_free(page_bitmap, ptr, count)
    /\ pa_live' = pa_live \ {<<ptr, count>>}
    /\ pa_ret' = [op |-> "free", count |-> count, ptr |-> ptr]
    /\ UNCHANGED <<km_mem, free_list, km_live, km_freed, km_op, scn>>

PallocNext ==
    \/ \E count \in PaCounts : PallocAlloc(count) /\ UNCHANGED <<schedVars, ptyVars, uiVars>>
    \/ \E rg \in pa_live : PallocFree(rg[1], rg[2]) /\ UNCHANGED <<schedVars, ptyVars, uiVars>>

PallocSpec == Init /\ [][PallocNext]_vars

\* ------------------------------------------------ coalescing scenario
\* The request sizes of the scenario and the orders of its three frees.
ScnSizes == {1, 64, 2000}
ScnOrders == {o \in [1..3 -> 1..3] : \A i, j \in 1..3 : i # j => o[i] # o[j]}

\* A fresh allocator and a scenario p = kmalloc(s1); q = kmalloc(s2);
\* r = kmalloc(s3) followed by the three frees in some order.
ScnInit ==
    /\ BaseInit /\ DevInit /\ PtyInit /\ pty_io = NoIo /\ wm = WmInit0
    /\ scn \in {[sizes |-> s, order |-> o, ptrs |-> <<>>, step |-> 0] :
                  s \in [1..3 -> ScnSizes], o \in ScnOrders}

\* The next kmalloc of the scenario.
ScnAlloc ==
    LET r == kmalloc(HeapSt, scn.sizes[scn.step + 1])
    IN  /\ scn.step < 3
        /\ SetHeap(r.st)
        /\ scn' = [scn EXCEPT !.ptrs = Append(@, r.ptr), !.step = @ + 1]
        /\ UNCHANGED <<km_live, km_freed, km_op, paVars>>

\* The next kfree of the scenario.
ScnFree ==
    LET r == kfree(HeapSt, scn.ptrs[scn.order[scn.step - 2]])
    IN  /\ 3 <= scn.step /\ scn.step < 6
        /\ SetHeap(r.st)
        /\ scn' = [scn EXCEPT !.step = @ + 1]
        /\ UNCHANGED <<km_live, km_freed, km_op, paVars>>

ScnNext ==
    \/ ScnAlloc /\ UNCHANGED <<schedVars, ptyVars, uiVars>>
    \/ ScnFree /\ UNCHANGED <<schedVars, ptyVars, uiVars>>

ScnSpec == ScnInit /\ [][ScnNext]_vars

\* ================================================================== PTY
(***************************************************************************)
(* Part 3: the input ring of src/kernel/pty.c.  Bytes are 0..255.          *)
(***************************************************************************)
\* in_buf[i] = c
PtyStore(buf, i, c) == [x \in DOMAIN buf \cup {i} |-> IF x = i THEN c ELSE buf[x]]

\* in_buf[i]
PtyLoad(buf, i) == IF i \in DOMAIN buf THEN buf[i] ELSE 0

\* A write that stores the byte one slot ahead of the head.
pty_write_in_at_next(buf, h, t, c) ==
    LET next == (h + 1) % PTY_IN_SIZE
    IN  IF next # t THEN [buf |-> PtyStore(buf, next, c), h |-> next]
        ELSE [buf |-> buf, h |-> h]

\* pty_write_in: the buffer and in_h afterwards; a full ring drops the byte.
pty_write_in(buf, h, t, c) ==
    LET next == (h + 1) % PTY_IN_SIZE
    IN  IF next # t THEN [buf |-> PtyStore(buf, h, c), h |-> next]
        ELSE [buf |-> buf, h |-> h]

\* pty_read_in: the byte returned (0 from an empty ring) and in_t afterwards.
pty_read_in(buf, h, t) ==
    IF h = t THEN [c |-> 0, t |-> t]
    ELSE [c |-> PtyLoad(buf, t), t |-> (t + 1) % PTY_IN_SIZE]

\* The numbers of bytes written, the ring positions the empty ring starts
\* at, and the first bytes of the data; byte i of the data is first + i
\* modulo 256.
PtyLens == {0, 1, 2, PTY_IN_SIZE - 2, PTY_IN_SIZE - 1, PTY_IN_SIZE}
PtyStarts == {0, 1, PTY_IN_SIZE - 2, PTY_IN_SIZE - 1}
PtyFirsts == {1, 200}
PtyData(n, first) == [i \in 1..n |-> (first + i - 1) % 256]

\* An empty input ring at some position and the data of a round trip.
PtyRtInit ==
    /\ BaseInit /\ DevInit /\ scn = NoScn /\ wm = WmInit0
    /\ pty_buf = [i \in {} |-> 0]
    /\ pty_head \in PtyStarts
    /\ pty_tail = pty_head
    /\ pty_io \in {[data |-> PtyData(n, first), written |-> 0, read |-> <<>>] :
                     n \in PtyLens, first \in PtyFirsts}

\* The writer hands the next byte of the data to pty_write_in.
PtyWriteIn ==
    LET w == pty_write_in(pty_buf, pty_head, pty_tail, pty_io.data[pty_io.written + 1])
    IN  /\ pty_io.written < Len(pty_io.data)
        /\ pty_buf' = w.buf
        /\ pty_head' = w.h
        /\ pty_io' = [pty_io EXCEPT !.written = @ + 1]
        /\ UNCHANGED pty_tail

\* The reader calls pty_read_in once all the data has been written.
PtyReadIn ==
    LET r == pty_read_in(pty_buf, pty_head, pty_tail)
    IN  /\ pty_io.written = Len(pty_io.data)
        /\ Len(pty_io.read) < Len(pty_io.data)
        /\ pty_tail' = r.t
        /\ pty_io' = [pty_io EXCEPT !.read = Append(@, r.c)]
        /\ UNCHANGED <<pty_buf, pty_head>>

PtyNext ==
    \/ PtyWriteIn /\ UNCHANGED <<schedVars, heapVars, uiVars>>
    \/ PtyReadIn /\ UNCHANGED <<schedVars, heapVars, uiVars>>

PtySpec == PtyRtInit /\ [][PtyNext]_vars

(***************************************************************************)
(* Part 4: the output ring and pty_getline of src/kernel/pty.c.            *)
(***************************************************************************)
\* Fault: a write that stores the byte and advances out_h although the ring
\* is full.
pty_write_out_overwrite(o, c) ==
    [o EXCEPT !.buf = PtyStore(o.buf, o.h, c), !.h = (o.h + 1) % PTY_OUT_SIZE]

\* pty_write_out: the output ring afterwards; a full ring drops the byte.
pty_write_out(o, c) ==
    LET next == (o.h + 1) % PTY_OUT_SIZE
    IN  IF next # o.t THEN [o EXCEPT !.buf = PtyStore(o.buf, o.h, c), !.h = next]
        ELSE o

\* pty_has_in
pty_has_in(h, t) == h # t

\* The bytes a reader of the output ring would get, oldest first.
OutContents(o) ==
    [k \in 1..((o.h - o.t) % PTY_OUT_SIZE) |->
        PtyLoad(o.buf, (o.t + k - 1) % PTY_OUT_SIZE)]

\* A line editor that ends the line without echoing the newline.
getline_char_silent_nl(g, o, c) ==
    IF c = CR \/ c = NL
    THEN [gl |-> [g EXCEPT !.nl = TRUE], out |-> o]
    ELSE IF c = BS \/ c = DEL
    THEN IF g.i > 0
         THEN [gl |-> [g EXCEPT !.i = @ - 1, !.buf = SubSeq(@, 1, g.i - 1)],
               out |-> pty_write_out(pty_write_out(pty_write_out(o, BS), SPACE), BS)]
         ELSE [gl |-> g, out |-> o]
    ELSE [gl |-> [g EXCEPT !.i = @ + 1, !.buf = Append(@, c)],
          out |-> pty_write_out(o, c)]

\* The body of pty_getline's loop for the byte c that pty_read_in returned:
\* the call's state and the output ring afterwards.  gl.buf is buf[0..i-1]
\* and gl.nl says that the loop was left by the break.
getline_char(g, o, c) ==
    IF c = CR \/ c = NL
    THEN [gl |-> [g EXCEPT !.nl = TRUE], out |-> pty_write_out(o, NL)]
    ELSE IF c = BS \/ c = DEL
    THEN IF g.i > 0
         THEN [gl |-> [g EXCEPT !.i = @ - 1, !.buf = SubSeq(@, 1, g.i - 1)],
               out |-> pty_write_out(pty_write_out(pty_write_out(o, BS), SPACE), BS)]
         ELSE [gl |-> g, out |-> o]
    ELSE [gl |-> [g EXCEPT !.i = @ + 1, !.buf = Append(@, c)],
          out |-> pty_write_out(o, c)]

\* while (i < max_len - 1) is tested again: the call goes on or returns i.
getline_loop(g) ==
    IF ~g.nl /\ g.i < g.max_len - 1 THEN [g EXCEPT !.pc = "loop"]
    ELSE [g EXCEPT !.pc = "ret", !.ret = g.i]

\* The lines the producer types and the buffer sizes the consumer passes.
EchoLines ==
    {<<97, 98, 99, NL>>, <<97, 98, 99, CR>>, <<97, BS, 98, 99, NL>>,
     <<DEL, 97, 98, 99, NL>>, <<NL>>, <<97, 98>>}
EchoMaxLens == {0, 1, 4, 5, 16}

\* The producer picks its line and the consumer calls
\* pty_getline(p, buf, max_len) on the fresh PTY.
GetlineCall(data, max_len) ==
    /\ gl.pc = "idle"
    /\ pty_io = NoIo
    /\ pty_io' = [NoIo EXCEPT !.data = data]
    /\ gl' = IF max_len <= 0 THEN [NoGl EXCEPT !.pc = "ret", !.max_len = max_len]
             ELSE getline_loop([NoGl EXCEPT !.max_len = max_len])
    /\ UNCHANGED <<pty_buf, pty_head, pty_tail, pty_out>>

\* The producer writes the next byte of its line with pty_write_in.
EchoWriteIn ==
    /\ gl.pc # "idle"
    /\ PtyWriteIn
    /\ UNCHANGED <<pty_out, gl>>

\* The input ring is empty: the call blocks in task_block_current_until.
GetlineBlock ==
    /\ gl.pc = "loop"
    /\ ~pty_has_in(pty_head, pty_tail)
    /\ gl' = [gl EXCEPT !.pc = "blocked"]
    /\ UNCHANGED <<ptyVars, pty_out>>

\* task_block_current_until returns and pty_has_in is tested again.
GetlineWake ==
    /\ gl.pc = "blocked"
    /\ gl' = [gl EXCEPT !.pc = "loop"]
    /\ UNCHANGED <<ptyVars, pty_out>>

\* The input ring holds a byte: pty_read_in, the line editing, the echo and
\* the next test of the loop condition.
GetlineChar ==
    LET r == pty_read_in(pty_buf, pty_head, pty_tail)
        e == getline_char(gl, pty_out, r.c)
    IN  /\ gl.pc = "loop"
        /\ pty_has_in(pty_head, pty_tail)
        /\ pty_tail' = r.t
        /\ pty_out' = e.out
        /\ gl' = getline_loop(e.gl)
        /\ UNCHANGED <<pty_buf, pty_head, pty_io>>

EchoNext ==
    \/ \E data \in EchoLines, max_len \in EchoMaxLens :
          GetlineCall(data, max_len) /\ UNCHANGED <<schedVars, heapVars, wm, devVars>>
    \/ EchoWriteIn /\ UNCHANGED <<schedVars, heapVars, wm, devVars>>
    \/ GetlineBlock /\ UNCHANGED <<schedVars, heapVars, wm, devVars>>
    \/ GetlineWake /\ UNCHANGED <<schedVars, heapVars, wm, devVars>>
    \/ GetlineChar /\ UNCHANGED <<schedVars, heapVars, wm, devVars>>

EchoSpec == Init /\ [][EchoNext]_vars

(***************************************************************************)
(* Part 5: the window manager of src/kernel/wm.c.  A struct window is      *)
(* named by the slot of the heap it lies in; W is the record of wm.        *)
(***************************************************************************)
\* The windows met by  curr = window_list; while (curr) curr = curr->next,
\* head first; fuel stops the walk of a list that has become cyclic.
RECURSIVE WinWalk(_, _, _)
WinWalk(wins, curr, fuel) ==
    IF curr = NULL \/ fuel = 0 THEN <<>>
    ELSE <<curr>> \o WinWalk(wins, wins[curr].next, fuel - 1)

WinList(W) == WinWalk(W.wins, W.window_list, Cardinality(WinIds) + 1)

SeqSet(s) == {s[k] : k \in 1..Len(s)}

\* The window whose next pointer is win (NULL when win is the head or is not
\* on the list): the node *prev lies in when the unlink loop stops at win.
WinPred(W, win) ==
    LET l == WinList(W)
        ks == {k \in 2..Len(l) : l[k] = win}
    IN  IF ks = {} THEN NULL ELSE l[(CHOOSE k \in ks : \A j \in ks : k <= j) - 1]

\* *prev = curr->next
WinUnlink(W, win) ==
    LET p == WinPred(W, win)
    IN  IF W.window_list = win
        THEN [W EXCEPT !.window_list = W.wins[win].next]
        ELSE [W EXCEPT !.wins[p].next = W.wins[win].next]

\* kmalloc(sizeof(struct window)): first fit hands out the lowest free slot,
\* NULL when the heap is full.
WinAlloc(W) ==
    IF Cardinality(W.alloc) >= W.room THEN NULL
    ELSE CHOOSE i \in WinIds \ W.alloc : \A j \in WinIds \ W.alloc : i <= j

\* wm_create_window: the record of wm afterwards and the pointer returned.
wm_create_window(W, x, y, w, h) ==
    LET win == WinAlloc(W)
    IN  IF win = NULL THEN [W |-> W, win |-> NULL]
        ELSE [W |-> [W EXCEPT
                      !.alloc = @ \cup {win},
                      !.wins[win] =
                         [NoWin EXCEPT !.x = x, !.y = y, !.w = w, !.h = h,
                                       !.saved_x = x, !.saved_y = y,
                                       !.saved_w = w, !.saved_h = h,
                                       !.next = W.window_list],
                      !.window_list = win,
                      !.focused_window = win],
              win |-> win]

\* A close that frees the window and leaves it on the list.
wm_close_window_linked(W, win) ==
    IF win = NULL \/ win \notin SeqSet(WinList(W)) THEN W
    ELSE [W EXCEPT !.alloc = @ \ {win},
                   !.op.steps = <<"unlink", "kfree">>]

\* wm_close_window: a window of the list is unlinked, the focus falls to the
\* new head if it was focused, and its memory is freed; any other pointer is
\* ignored.  op.steps records what the call did, in order.
wm_close_window(W, win) ==
    IF win = NULL \/ win \notin SeqSet(WinList(W)) THEN W
    ELSE LET U == WinUnlink(W, win)
         IN  [U EXCEPT
                !.focused_window = IF W.focused_window = win
                                   THEN U.window_list ELSE @,
                !.alloc = @ \ {win},
                !.wins[win] = NoWin,
                !.op.steps = <<"unlink", "kfree">>]

\* A raise that makes win the head without unlinking it first.
wm_bring_to_front_dup(W, win) ==
    IF win = NULL \/ W.window_list = win THEN W
    ELSE [W EXCEPT !.wins[win].next = W.window_list, !.window_list = win]

\* wm_bring_to_front
wm_bring_to_front(W, win) ==
    IF win = NULL \/ W.window_list = win THEN W
    ELSE IF win \notin SeqSet(WinList(W)) THEN W
    ELSE LET U == WinUnlink(W, win)
         IN  [U EXCEPT !.wins[win].next = U.window_list, !.window_list = win]

\* The geometry a state gives a window (the switch of wm_set_state).
StateGeom(g, state) ==
    IF state = "MAXIMIZED" \/ state = "FULLSCREEN"
    THEN [g EXCEPT !.x = 0, !.y = 0, !.w = SCREEN_W, !.h = SCREEN_H]
    ELSE IF state = "MAXIMIZED_TASKBAR"
    THEN [g EXCEPT !.x = 0, !.y = 0, !.w = SCREEN_W, !.h = SCREEN_H - taskbar_h]
    ELSE IF state = "NORMAL"
    THEN [g EXCEPT !.x = g.saved_x, !.y = g.saved_y,
                   !.w = g.saved_w, !.h = g.saved_h]
    ELSE g

\* if (win->state == WM_STATE_NORMAL) save the current geometry
SaveGeom(g) ==
    IF g.state = "NORMAL"
    THEN [g EXCEPT !.saved_x = g.x, !.saved_y = g.y,
                   !.saved_w = g.w, !.saved_h = g.h]
    ELSE g

\* A state change that saves the geometry on every call.
wm_set_state_always_saves(W, win, state) ==
    IF win = NULL THEN W
    ELSE [W EXCEPT !.wins[win] =
            StateGeom([W.wins[win] EXCEPT
                          !.saved_x = W.wins[win].x, !.saved_y = W.wins[win].y,
                          !.saved_w = W.wins[win].w, !.saved_h = W.wins[win].h,
                          !.state = state], state)]

\* wm_set_state
wm_set_state(W, win, state) ==
    IF win = NULL THEN W
    ELSE [W EXCEPT !.wins[win] =
            StateGeom([SaveGeom(W.wins[win]) EXCEPT !.state = state], state)]

\* myra_app_open: the launcher window is created unless g_myra is set; its
\* on_close is set.  With the heap full nothing is created.
myra_app_open(W) ==
    IF W.g_myra # NULL THEN W
    ELSE LET c == wm_create_window(W, (SCREEN_W - 500) \div 2,
                                   (SCREEN_H - 400) \div 2, 500, 400)
         IN  IF c.win = NULL THEN W
             ELSE [c.W EXCEPT !.g_myra = c.win, !.wins[c.win].on_close = TRUE]

\* mouse_x >= w->x && mouse_x <= w->x + w->w && mouse_y >= w->y && ...
WinHit(g, mx, my) ==
    mx >= g.x /\ mx <= g.x + g.w /\ my >= g.y /\ my <= g.y + g.h

\* The first window of the list, front to back, that is not minimized and
\* has the point within its bounds; NULL if there is none.
FirstHit(W, mx, my) ==
    LET l == WinList(W)
        ks == {k \in 1..Len(l) :
                 W.wins[l[k]].state # "MINIMIZED" /\ WinHit(W.wins[l[k]], mx, my)}
    IN  IF ks = {} THEN NULL ELSE l[CHOOSE k \in ks : \A j \in ks : k <= j]

\* The window whose taskbar entry [tx, tx + 80] holds mouse_x, tx starting
\* at 75 and growing by 85 for each window of the list; NULL if none.
TaskbarEntry(W, mx) ==
    LET l == WinList(W)
        ks == {k \in 1..Len(l) : mx >= 75 + 85 * (k - 1) /\ mx <= 75 + 85 * (k - 1) + 80}
    IN  IF ks = {} THEN NULL ELSE l[CHOOSE k \in ks : \A j \in ks : k <= j]

\* A press in the taskbar: the launcher button, or the entry of a window.
click_taskbar(W, mx) ==
    LET tw == TaskbarEntry(W, mx)
    IN  IF mx >= 5 /\ mx <= 65 THEN myra_app_open(W)
        ELSE IF tw = NULL THEN W
        ELSE IF W.wins[tw].state = "MINIMIZED" THEN wm_set_state(W, tw, "NORMAL")
        ELSE wm_bring_to_front([W EXCEPT !.focused_window = tw], tw)

\* The title bar of the window the press went to (already focused and
\* raised): a button, or the start of a drag.
click_titlebar(W, w, mx, my) ==
    LET g == W.wins[w]
    IN  IF mx >= g.x + g.w - 22 /\ mx <= g.x + g.w - 2
        THEN wm_close_window(W, w)
        ELSE IF mx >= g.x + g.w - 42 /\ mx <= g.x + g.w - 24
        THEN IF g.state = "NORMAL" THEN wm_set_state(W, w, "MAXIMIZED_TASKBAR")
             ELSE wm_set_state(W, w, "NORMAL")
        ELSE IF mx >= g.x + g.w - 62 /\ mx <= g.x + g.w - 44
        THEN wm_set_state(W, w, "MINIMIZED")
        ELSE [W EXCEPT !.drag_win = w, !.drag_off_x = mx - g.x,
                       !.drag_off_y = my - g.y]

\* A press that goes to the window under it without raising it.
click_window_noraise(W, w, mx, my) ==
    LET F == [W EXCEPT !.focused_window = w]
    IN  IF F.wins[w].state # "FULLSCREEN" /\ my < F.wins[w].y + 22
        THEN click_titlebar(F, w, mx, my)
        ELSE F

\* A press inside the bounds of w, the topmost window under the pointer.
click_window(W, w, mx, my) ==
    LET F == wm_bring_to_front([W EXCEPT !.focused_window = w], w)
    IN  IF F.wins[w].state # "FULLSCREEN" /\ my < F.wins[w].y + 22
        THEN click_titlebar(F, w, mx, my)
        ELSE F

\* The part of wm_handle_clicks that runs when the button went down.
click_pressed(W, mx, my) ==
    IF my >= SCREEN_H - taskbar_h THEN click_taskbar(W, mx)
    ELSE IF FirstHit(W, mx, my) = NULL THEN W
    ELSE click_window(W, FirstHit(W, mx, my), mx, my)

\* if (mouse_btn && drag_win) move the dragged window.  A drag_win that has
\* been freed is written through all the same; the write lands in free
\* memory and is lost.
click_drag(W, mx, my, btn) ==
    IF btn # 0 /\ W.drag_win # NULL /\ W.drag_win \in W.alloc
    THEN [W EXCEPT !.wins[W.drag_win].x = mx - W.drag_off_x,
                   !.wins[W.drag_win].y = my - W.drag_off_y]
    ELSE W

\* wm_handle_clicks with mouse_x, mouse_y, mouse_btn as wm_compose set them.
wm_handle_clicks(W, mx, my, btn) ==
    LET pressed == btn # 0 /\ W.last_btn = 0
        released == btn = 0 /\ W.last_btn # 0
        R == IF released THEN [W EXCEPT !.drag_win = NULL] ELSE W
        D == [click_drag(R, mx, my, btn) EXCEPT !.last_btn = btn]
    IN  IF pressed THEN click_pressed(D, mx, my) ELSE D

\* A distribution that stores the event although the queue is full.
push_key_overwrite(W, kev) ==
    LET f == W.focused_window
        next_head == (W.wins[f].input_head + 1) % WM_INPUT_QUEUE_SIZE
    IN  IF f = NULL THEN W
        ELSE [W EXCEPT !.wins[f].input_queue =
                           PtyStore(@, W.wins[f].input_head, kev),
                       !.wins[f].input_head = next_head]

\* One key event of the compositor's loop: it is stored in the focused
\* window's input queue unless the queue is full or no window is focused.
\* (The windows of the model have no tty, as wm_create_window leaves them.)
push_key(W, kev) ==
    LET f == W.focused_window
        next_head == (W.wins[f].input_head + 1) % WM_INPUT_QUEUE_SIZE
    IN  IF f = NULL THEN W
        ELSE IF next_head = W.wins[f].input_tail THEN W
        ELSE [W EXCEPT !.wins[f].input_queue =
                           PtyStore(@, W.wins[f].input_head, kev),
                       !.wins[f].input_head = next_head]

RECURSIVE push_keys(_, _)
push_keys(W, keys) ==
    IF keys = <<>> THEN W ELSE push_keys(push_key(W, Head(keys)), Tail(keys))

\* wm_compose: the mouse queue has been drained into (mx, my, btn), the key
\* queue holds keys; the keys are distributed, then the clicks are handled.
wm_compose(W, mx, my, btn, keys) ==
    wm_handle_clicks(push_keys(W, keys), mx, my, btn)

\* wm_pop_key_event: 0 from an empty queue, else the oldest event.
wm_pop_key_event(W, win) ==
    IF win = NULL \/ W.wins[win].input_head = W.wins[win].input_tail
    THEN [W |-> W, ok |-> 0, ev |-> 0]
    ELSE [W |-> [W EXCEPT !.wins[win].input_tail = (@ + 1) % WM_INPUT_QUEUE_SIZE],
          ok |-> 1,
          ev |-> PtyLoad(W.wins[win].input_queue, W.wins[win].input_tail)]

\* The rectangles applications create windows with: the second overlaps the
\* first and reaches into the taskbar strip.  (The launcher's rectangle
\* overlaps both.)
FocusGeoms ==
    {[x |-> 100, y |-> 100, w |-> 300, h |-> 200],
     [x |-> 200, y |-> 150, w |-> 300, h |-> 430]}
WinGeoms == {[x |-> 100, y |-> 100, w |-> 300, h |-> 200]}

\* The places the pointer is at when wm_compose runs: window bodies, the
\* overlap of the first two rectangles, title bars and their buttons (of the
\* first rectangle and of a maximized window), the taskbar and the desktop.
ClickPoints ==
    {<<150, 200>>, <<250, 200>>, <<450, 300>>, <<450, 575>>, <<600, 300>>,
     <<150, 110>>, <<388, 110>>, <<366, 110>>, <<346, 110>>,
     <<788, 10>>, <<766, 10>>, <<746, 10>>, <<300, 10>>,
     <<30, 580>>, <<100, 580>>, <<180, 580>>, <<260, 580>>, <<700, 580>>,
     <<700, 50>>}

\* Where a held button is moved to.
DragPoints == {<<170, 130>>}

\* The history of the last operation: log = FALSE keeps only the steps of a
\* close, log = TRUE also the call, its window, its state argument, the state
\* the window was in before the call and, for wm_set_state, the geometry
\* (x, y, w, h) it had before the call; for a frame, pre is the pointer.
\* second marks a wm_set_state(w, NORMAL) that directly follows a
\* wm_set_state(w, S), S maximized or fullscreen, made on a NORMAL window.
Geom(g) == <<g.x, g.y, g.w, g.h>>
WmOp(W, log, name, win, arg, pre) ==
    [W EXCEPT !.op = IF log
                     THEN [name |-> name, win |-> win, arg |-> arg,
                           from |-> IF win = NULL THEN "NORMAL" ELSE wm.wins[win].state,
                           pre |-> pre,
                           second |-> /\ name = "set_state" /\ arg = "NORMAL"
                                      /\ wm.op.name = "set_state" /\ wm.op.win = win
                                      /\ wm.op.arg \in RoundTripStates
                                      /\ wm.op.from = "NORMAL",
                           steps |-> @.steps]
                     ELSE [NoWmOp EXCEPT !.steps = W.op.steps]]
WmStart(W) == [W EXCEPT !.op.steps = <<>>]

\* An application creates its window and sets its on_close callback, as the
\* applications that keep private state do right after the call.
WmCreate(g, log) ==
    LET c == wm_create_window(WmStart(wm), g.x, g.y, g.w, g.h)
    IN  /\ c.win # NULL
        /\ wm' = WmOp([c.W EXCEPT !.wins[c.win].on_close = TRUE], log,
                      "create", c.win, "NORMAL", <<>>)

\* An application closes the window it holds a pointer to; the pointer may
\* be stale (the close button has freed the window).
WmClose(win, log) ==
    /\ wm.alloc # {}
    /\ wm' = WmOp(wm_close_window(WmStart(wm), win), log, "close", win, "NORMAL", <<>>)

\* The launcher task closes its window and ends: g_myra = NULL.
MyraQuit(log) ==
    /\ wm.g_myra # NULL
    /\ wm' = WmOp([wm_close_window(WmStart(wm), wm.g_myra) EXCEPT !.g_myra = NULL],
                  log, "close", wm.g_myra, "NORMAL", <<>>)

\* The place on the list, before the frame, of the window under the pointer
\* (0 if there is none).
HitIndex(W, mx, my) ==
    IF FirstHit(W, mx, my) = NULL THEN 0
    ELSE CHOOSE k \in 1..Len(WinList(W)) : WinList(W)[k] = FirstHit(W, mx, my)

\* A frame of the compositor with the button down at a point.
WmPress(mx, my, log) ==
    /\ wm.last_btn = 0
    /\ wm.alloc # {}
    /\ wm' = WmOp(wm_compose(WmStart(wm), mx, my, 1, <<>>), log,
                  "press", NULL, "NORMAL", <<mx, my, HitIndex(wm, mx, my)>>)

\* A frame with the button still held: a drag move if a drag is on.
WmHold(mx, my, log) ==
    /\ wm.last_btn # 0
    /\ wm.drags < MaxDrags
    /\ wm' = WmOp([wm_compose(WmStart(wm), mx, my, 1, <<>>) EXCEPT !.drags = @ + 1],
                  log, "hold", NULL, "NORMAL", <<mx, my>>)

\* A frame with the button up again.
WmRelease(log) ==
    /\ wm.last_btn # 0
    /\ wm' = WmOp(wm_compose(WmStart(wm), 0, 0, 0, <<>>), log,
                  "release", NULL, "NORMAL", <<>>)

\* An application changes the state of its window.
WmSetState(win, state, log) ==
    /\ win \in wm.alloc
    /\ wm' = WmOp(wm_set_state(WmStart(wm), win, state), log,
                  "set_state", win, state, Geom(wm.wins[win]))

WmNext ==
    \/ \E g \in WinGeoms : WmCreate(g, FALSE)
    \/ \E win \in WinIds : WmClose(win, FALSE)
    \/ MyraQuit(FALSE)
    \/ \E p \in ClickPoints : WmPress(p[1], p[2], FALSE)
    \/ \E p \in DragPoints : WmHold(p[1], p[2], FALSE)
    \/ WmRelease(FALSE)
    \/ \E win \in WinIds, state \in WmStates : WmSetState(win, state, FALSE)

\* Three windows and the pointer: creation, presses, releases and closes,
\* with the history of the last operation.
FocusInit ==
    /\ BaseInit /\ DevInit /\ scn = NoScn /\ PtyInit /\ pty_io = NoIo
    /\ wm = [WmInit0 EXCEPT !.room = MaxFocusWins]

FocusNext ==
    \/ \E g \in FocusGeoms : WmCreate(g, TRUE)
    \/ \E p \in ClickPoints : WmPress(p[1], p[2], TRUE)
    \/ WmRelease(TRUE)
    \/ \E win \in WinIds : WmClose(win, TRUE)

wmRest == <<schedVars, heapVars, ptyVars, pty_out, gl, devVars>>

FocusSpec == FocusInit /\ [][FocusNext /\ UNCHANGED wmRest]_vars

\* One window and the launcher, every operation, with the history of the
\* last operation.
RtInit ==
    /\ BaseInit /\ DevInit /\ scn = NoScn /\ PtyInit /\ pty_io = NoIo
    /\ wm = [WmInit0 EXCEPT !.room = MaxRtWins]

RtNext ==
    \/ \E g \in FocusGeoms : WmCreate(g, TRUE)
    \/ \E win \in WinIds : WmClose(win, TRUE)
    \/ \E p \in ClickPoints : WmPress(p[1], p[2], TRUE)
    \/ \E p \in DragPoints : WmHold(p[1], p[2], TRUE)
    \/ WmRelease(TRUE)
    \/ \E win \in WinIds, state \in WmStates : WmSetState(win, state, TRUE)

RtSpec == RtInit /\ [][RtNext /\ UNCHANGED wmRest]_vars

\* The events of a window's input queue from input_tail to input_head.
QueueContents(g) ==
    [k \in 1..((g.input_head - g.input_tail) % WM_INPUT_QUEUE_SIZE) |->
        PtyLoad(g.input_queue, (g.input_tail + k - 1) % WM_INPUT_QUEUE_SIZE)]

\* One window, its owner and the keyboard.
QueueInit ==
    /\ BaseInit /\ DevInit /\ scn = NoScn /\ PtyInit /\ pty_io = NoIo
    /\ wm = [WmInit0 EXCEPT !.room = 1]

\* The application creates its window, before the first key is pressed.
QCreate ==
    /\ wm.keys.offered = 0
    /\ \E g \in WinGeoms : WmCreate(g, FALSE)

\* A frame of the compositor with n key events in the key queue and the
\* mouse at rest.  The events the frame stored are those by which input_head
\* advanced.
QKeys(n) ==
    LET f == wm.focused_window
        ids == [k \in 1..n |-> wm.keys.offered + k]
        W == wm_compose(WmStart(wm), 0, 0, 0, ids)
        stored == IF f = NULL THEN 0
                  ELSE (W.wins[f].input_head - wm.wins[f].input_head)
                           % WM_INPUT_QUEUE_SIZE
    IN  /\ wm.keys.offered + n <= MaxKeys
        /\ wm' = [WmOp(W, FALSE, "keys", NULL, "NORMAL", <<>>) EXCEPT
                     !.keys.offered = @ + n,
                     !.keys.pending = @ \o SubSeq(ids, 1, stored)]

\* The owner polls its window with wm_pop_key_event.
QPop ==
    \E win \in wm.alloc :
        LET r == wm_pop_key_event(WmStart(wm), win)
        IN  wm' = [WmOp(r.W, FALSE, "pop", win, "NORMAL", <<>>) EXCEPT
                      !.keys.pending = IF r.ok = 1 THEN Tail(@) ELSE @,
                      !.keys.lastpop =
                          [ok |-> r.ok, ev |-> r.ev,
                           oldest |-> IF wm.keys.pending = <<>> THEN 0
                                      ELSE Head(wm.keys.pending)]]

\* The window is closed; the events still in its queue go with it.
QClose ==
    \E win \in wm.alloc :
        wm' = [WmOp(wm_close_window(WmStart(wm), win), FALSE, "close", win,
                    "NORMAL", <<>>) EXCEPT !.keys.pending = <<>>]

QueueNext ==
    \/ QCreate
    \/ \E n \in 1..2 : QKeys(n)
    \/ QPop
    \/ QClose

\* The owner keeps polling: a pop that can return an event is made.
QueueSpec ==
    /\ QueueInit /\ [][QueueNext /\ UNCHANGED wmRest]_vars
    /\ WF_vars(QPop /\ UNCHANGED wmRest)

WmSpec == Init /\ [][WmNext /\ UNCHANGED wmRest]_vars

\* ================================================================ input
(***************************************************************************)
(* Part 6: the event aggregator of src/kernel/input.c.  The two queues are *)
(* kept as their head and tail indices; the events stored in them play no  *)
(* part in what input_push_event signals.                                  *)
(***************************************************************************)
\* (val * max_res) / 32768
scale_mouse(val, max_res) == (val * max_res) \div ABS_RANGE

Clamp(v, max_res) == IF v < 0 THEN 0 ELSE IF v >= max_res THEN max_res - 1 ELSE v

\* The first part of input_push_event: the cursor position and button.
input_track(q, type, code, value) ==
    LET x == IF type = INPUT_TYPE_ABS /\ code = 0
             THEN scale_mouse(value, SCREEN_W)
             ELSE IF type = INPUT_TYPE_REL /\ code = 0 THEN q.mouse_x + value
             ELSE q.mouse_x
        y == IF type = INPUT_TYPE_ABS /\ code = 1
             THEN scale_mouse(value, SCREEN_H)
             ELSE IF type = INPUT_TYPE_REL /\ code = 1 THEN q.mouse_y + value
             ELSE q.mouse_y
    IN  [q EXCEPT !.mouse_x = Clamp(x, SCREEN_W),
                  !.mouse_y = Clamp(y, SCREEN_H),
                  !.mouse_btn = IF type = INPUT_TYPE_KEY /\ code = BTN_LEFT
                                THEN value ELSE @]

\* The queue input_push_event chooses: a key below 0x100 goes to key_queue.
ToKeyQueue(type, code) == type = INPUT_TYPE_KEY /\ code < BTN_MISC

\* The type input_push_event stores and tests after the push.
StoredType(type, code) ==
    IF type = INPUT_TYPE_KEY /\ code >= BTN_MISC THEN INPUT_TYPE_MOUSE_BTN
    ELSE type

\* int next = (*head + 1) % EVENT_QUEUE_SIZE; if (next != *tail) { ... }
QueueHasRoom(head, tail) == (head + 1) % EVENT_QUEUE_SIZE # tail

\* Fault: the wake-ups of input_push_event without if (!pushed) return.
input_signals_always(type, pushed) ==
    IF type = INPUT_TYPE_KEY THEN <<"WM">> ELSE <<"MOUSE", "WM">>

\* The task_wake_event calls of input_push_event, in call order.
input_signals(type, pushed) ==
    IF ~pushed THEN <<>>
    ELSE IF type = INPUT_TYPE_KEY THEN <<"WM">>
    ELSE <<"MOUSE", "WM">>

\* input_push_event(type, code, value) up to its task_wake_event calls: the
\* statics after the call, with the call recorded.
input_push_event(q, type, code, value) ==
    LET t == input_track(q, type, code, value)
        key == ToKeyQueue(type, code)
        head == IF key THEN t.key_head ELSE t.mouse_head
        tail == IF key THEN t.key_tail ELSE t.mouse_tail
        pushed == QueueHasRoom(head, tail)
        next == (head + 1) % EVENT_QUEUE_SIZE
        st == StoredType(type, code)
    IN  [t EXCEPT !.key_head = IF key /\ pushed THEN next ELSE @,
                  !.mouse_head = IF ~key /\ pushed THEN next ELSE @,
                  !.calls = @ + 1,
                  !.last = [type |-> st, code |-> code, pushed |-> pushed,
                            evs |-> input_signals(st, pushed)]]

\* The events virtio_input_poll hands to input_push_event: the key A, the left
\* mouse button, another button, a relative and an absolute movement.
InputEvents ==
    {<<INPUT_TYPE_KEY, 30, 1>>, <<INPUT_TYPE_KEY, BTN_LEFT, 1>>,
     <<INPUT_TYPE_KEY, BTN_MISC, 1>>, <<INPUT_TYPE_REL, 0, 5>>,
     <<INPUT_TYPE_ABS, 1, ABS_RANGE - 1>>}

\* The events that arrived, polled by schedule(), before the first task was
\* created and that nobody has popped: none, or one less than a queue holds.
Backlogs == {0, EVENT_QUEUE_SIZE - 2}

InputInit ==
    /\ BaseInit /\ scn = NoScn /\ PtyInit /\ pty_io = NoIo
    /\ wm = WmInit0
    /\ gpu = NoGpu
    /\ HwInit
    /\ \E k \in Backlogs, m \in Backlogs :
          inq = [NoInq EXCEPT !.key_head = k, !.mouse_head = m]

\* irq_entry_c on the fallback path with one event in the used ring of an
\* input device: scheduler_tick_advance(1), then virtio_input_poll hands the
\* event to input_push_event, then scheduler_request_preempt().
InputIrq(type, code, value) ==
    /\ scheduler_tick < MaxInputTick
    /\ LET a == scheduler_tick_advance(tasks, task_head, scheduler_tick, 1)
           q == input_push_event(inq, type, code, value)
           d == wake_all(a.ts, task_head, wait_list, q.last.evs)
       IN  /\ tasks' = d.ts
           /\ wait_list' = d.wl
           /\ scheduler_tick' = a.tick
           /\ inq' = q
    /\ preempt_requested' = 1
    /\ UNCHANGED <<task_head, task_cur, next_task_id, pc>>

\* The scheduler leaves the input queues alone.
InputQuiet ==
    UNCHANGED <<lastop, cascade, lost_wakes, runVars, heapVars, ptyVars,
                pty_out, gl, wm, devVars>>

\* Tasks that are created, yield and wait for the WM and MOUSE events while
\* interrupts deliver input events; schedule() itself finds no event pending.
InputNext ==
    \/ BootCreateInit /\ InputQuiet
    \/ BootSchedule(0, "none") /\ InputQuiet
    \/ TaskCreate /\ InputQuiet
    \/ Yield(0, "none") /\ InputQuiet
    \/ WaitEventEnter /\ InputQuiet
    \/ \E event_id \in Events : WaitEvent(event_id, 0, "none") /\ InputQuiet
    \/ \E e \in InputEvents :
          InputIrq(e[1], e[2], e[3])
          /\ UNCHANGED <<lastop, cascade, lost_wakes, runVars, heapVars,
                         ptyVars, pty_out, gl, wm, gpu, hwVars>>

InputSpec == InputInit /\ [][InputNext]_vars

\* ============================================================= irq mask
(***************************************************************************)
(* Part 8: the interrupt mask around schedule().  irq_save reads DAIF and  *)
(* masks IRQs, irq_restore writes DAIF back.  The boot code, the vectors,  *)
(* cpu_switch_to and ret_from_fork are assembly outside this repository's  *)
(* C sources: the mask at boot and the mask a new task starts with are     *)
(* either value.                                                           *)
(***************************************************************************)
\* runnable_count of schedule(): the tasks of the ring with fn != NULL.
runnable_count(ts, head) ==
    Cardinality({t \in RingSet(ts, head) : ts[t].fn})

\* Fault: irq_restore(sched_flags) before every return of schedule().
schedule_path_restoring(head, count, switched) ==
    IF head = 0 THEN "no_tasks"
    ELSE IF switched THEN "switch"
    ELSE "none_runnable"

\* The way a schedule() call leaves: if (!task_head) return comes before
\* irq_save; runnable_count == 0 restores the mask and returns; the three
\* returns without a switch (the only runnable task is the caller, no
\* runnable target, target == prev) do not call irq_restore; otherwise
\* cpu_switch_to.
schedule_path(head, count, switched) ==
    IF head = 0 THEN "no_tasks"
    ELSE IF count = 0 THEN "none_runnable"
    ELSE IF switched THEN "switch"
    ELSE "stay"

\* The mask and the saved flags after a schedule() call of the current
\* context that took this path; entry is the mask a new task starts with.
mask_after(m, path, caller, next, fresh, entry) ==
    IF path \in {"no_tasks", "none_runnable"}
    THEN [m EXCEPT !.last = [path |-> path, pre |-> m.masked]]
    ELSE IF path = "stay"
    THEN [m EXCEPT !.masked = TRUE,
                   !.last = [path |-> path, pre |-> m.masked]]
    ELSE [m EXCEPT !.flags[caller] = m.masked,
                   !.masked = IF fresh THEN entry ELSE m.flags[next],
                   !.last = [path |-> path, pre |-> m.masked]]

\* Observer of a step that calls schedule().
ObsMask(entry) ==
    /\ irqm' = mask_after(irqm,
                          schedule_path(task_head',
                                        runnable_count(tasks', task_head'),
                                        task_cur' # task_cur),
                          task_cur, task_cur', pc[task_cur'] = "new", entry)
    /\ UNCHANGED <<lastop, cascade, lost_wakes, runVars, heapVars, ptyVars,
                   pty_out, gl, wm, inq, gpu, stk, tmr, vq, kbd, evq>>

\* Observer of a step that does not call schedule().
MaskQuiet ==
    /\ irqm' = [irqm EXCEPT !.last = [path |-> "none", pre |-> irqm.masked]]
    /\ UNCHANGED <<lastop, cascade, lost_wakes, runVars, heapVars, ptyVars,
                   pty_out, gl, wm, inq, gpu, stk, tmr, vq, kbd, evq>>

\* The boot code leaves IRQs masked or enabled.
MaskInit ==
    /\ BaseInit /\ scn = NoScn /\ PtyInit /\ pty_io = NoIo
    /\ wm = WmInit0 /\ inq = NoInq /\ gpu = NoGpu
    /\ stk = NoStk /\ tmr = NoTmr /\ vq = NoVq /\ evq = NoEvq
    /\ kbd = NoKbd
    /\ \E b \in BOOLEAN : irqm = [NoIrqm EXCEPT !.masked = b]

MaskNext ==
    \/ BootCreateInit /\ MaskQuiet
    \/ \E delta \in Deltas, b \in BOOLEAN :
          BootSchedule(delta, "none") /\ ObsMask(b)
    \/ TaskCreate /\ MaskQuiet
    \/ \E delta \in Deltas, b \in BOOLEAN : Yield(delta, "none") /\ ObsMask(b)
    \/ \E delta \in Deltas, b \in BOOLEAN :
          TaskExit(delta, "none") /\ ObsMask(b)
    \/ \E delta \in Deltas, b \in BOOLEAN :
          ExitLoopYield(delta, "none") /\ ObsMask(b)
    \/ \E wake_tick \in WakeTicks, delta \in Deltas, b \in BOOLEAN :
          BlockUntil(wake_tick, delta, "none") /\ ObsMask(b)

MaskSpec == MaskInit /\ [][MaskNext]_vars

\* ================================================================ stacks
(***************************************************************************)
(* Part 9: the stack checks of schedule().  A stack is the kmalloc'ed      *)
(* block of task_create_with_stack: a guard region of STACK_GUARD_SIZE     *)
(* bytes filled with 0xDEADDEAD, the canary in the first eight bytes above *)
(* it, and the usable stack up to total_alloc.  Addresses are offsets from *)
(* t->stack.  stk.sp is the stack pointer of the context on the CPU,       *)
(* stk.t[id].guard the guard words that no longer hold the poison,         *)
(* stk.t[id].canary whether the canary word is intact, stk.t[id].sp the    *)
(* context.sp cpu_switch_to saved.  stk.halted: the CPU spins in one of    *)
(* the while(1) loops of the validation with IRQs masked.                  *)
(***************************************************************************)
total_alloc == STACK_GUARD_SIZE + StackKb * 1024

\* The guard words a write is tried on: the first and the last of the region.
GuardWords == {0, STACK_GUARD_SIZE \div 4 - 1}

\* Stack pointers a context can have: inside the guard, on the canary, in
\* the usable stack, at the top, above the block.
SpValues == {STACK_GUARD_SIZE - 16, STACK_GUARD_SIZE, total_alloc - 16,
             total_alloc, total_alloc + 16}

\* context.sp = stack_top & ~0xF, for a block that is 16- or 8-aligned.
InitialSps == {total_alloc, total_alloc - 8}

\* The stack task_create_with_stack sets up.
new_stack(sp) == [guard |-> {}, canary |-> TRUE, sp |-> sp]

\* Fault: the validation without the canary test.
stack_valid_no_canary(s) ==
    /\ s.guard = {}
    /\ ~(s.sp < STACK_GUARD_SIZE \/ s.sp > total_alloc)

\* The three tests schedule() makes on next before cpu_switch_to: every
\* guard word is the poison, the canary is intact, and stack_bottom <=
\* context.sp <= stack_top.
stack_valid(s) ==
    /\ s.guard = {}
    /\ s.canary
    /\ ~(s.sp < STACK_GUARD_SIZE \/ s.sp > total_alloc)

\* The end of schedule() once next # prev was chosen: task_cur is already
\* next; a failed test spins, otherwise cpu_switch_to stores the caller's
\* stack pointer and loads the one saved for next.
switch_or_halt(k, prev, next) ==
    IF stack_valid(k.t[next])
    THEN [k EXCEPT !.t[prev].sp = k.sp, !.on_cpu = next, !.sp = k.t[next].sp]
    ELSE [k EXCEPT !.halted = TRUE]

stkRest == <<lastop, cascade, lost_wakes, runVars, heapVars, ptyVars,
             pty_out, gl, wm, inq, gpu, irqm, tmr, vq, kbd, evq>>

\* Observer of a step that calls schedule(); nothing runs once the CPU spins.
ObsStk ==
    /\ ~stk.halted
    /\ stk' = IF task_cur' # task_cur
              THEN switch_or_halt(stk, task_cur, task_cur')
              ELSE stk
    /\ UNCHANGED stkRest

\* Observer of a task_create_with_stack step.
ObsStkCreate(sp) ==
    /\ ~stk.halted
    /\ stk' = [stk EXCEPT !.t[next_task_id] = new_stack(sp)]
    /\ UNCHANGED stkRest

\* The task on the CPU moves its stack pointer (calls, returns, frames of
\* any size).
StackMove(sp) ==
    /\ ~stk.halted
    /\ stk.on_cpu # BOOT
    /\ stk.sp # sp
    /\ stk' = [stk EXCEPT !.sp = sp]
    /\ UNCHANGED <<schedVars, stkRest>>

\* A store of the task on the CPU lands on a guard word or on the canary of
\* a stack (its own by overflow, another one by a stray pointer).
StackSmash(t, word) ==
    /\ ~stk.halted
    /\ stk.on_cpu # BOOT
    /\ stk.smashes < MaxSmashes
    /\ t \in RingSet(tasks, task_head)
    /\ stk' = IF word = -1
              THEN [stk EXCEPT !.t[t].canary = FALSE, !.smashes = @ + 1]
              ELSE [stk EXCEPT !.t[t].guard = @ \cup {word},
                               !.smashes = @ + 1]
    /\ UNCHANGED <<schedVars, stkRest>>

StackInit ==
    /\ BaseInit /\ scn = NoScn /\ PtyInit /\ pty_io = NoIo
    /\ wm = WmInit0 /\ inq = NoInq /\ gpu = NoGpu
    /\ irqm = NoIrqm /\ stk = NoStk /\ tmr = NoTmr /\ vq = NoVq /\ evq = NoEvq
    /\ kbd = NoKbd

StackNext ==
    \/ \E sp \in InitialSps : BootCreateInit /\ ObsStkCreate(sp)
    \/ \E delta \in Deltas : BootSchedule(delta, "none") /\ ObsStk
    \/ \E sp \in InitialSps : TaskCreate /\ ObsStkCreate(sp)
    \/ \E delta \in Deltas : Yield(delta, "none") /\ ObsStk
    \/ \E delta \in Deltas : TaskExit(delta, "none") /\ ObsStk
    \/ \E delta \in Deltas : ExitLoopYield(delta, "none") /\ ObsStk
    \/ \E sp \in SpValues : StackMove(sp)
    \/ \E t \in 1..MaxTasks, word \in GuardWords \cup {-1} :
          StackSmash(t, word)

StackSpec == StackInit /\ [][StackNext]_vars

\* ================================================== waiter list and IRQs
(***************************************************************************)
(* Part 11: the interrupt mask at every change of the waiter list.         *)
(* task_wait_event links its node between irq_save and irq_restore,        *)
(* task_wake_event unlinks and frees between irq_save and irq_restore;     *)
(* reap_zombies unlinks and frees the nodes of a reaped task at the start  *)
(* of schedule(), before schedule() calls irq_save, so with the mask of    *)
(* the caller.  irqm.last.edits holds the changes of the last step, each   *)
(* with the mask it was made under.                                        *)
(***************************************************************************)
\* The waiter nodes reap_zombies frees in this step: those of the tasks that
\* leave the ring.
reaped_waiters(wl) ==
    {i \in 1..Len(wl) : pc[wl[i].task_id] # "none" /\ pc'[wl[i].task_id] = "none"}

\* The changes of the waiter list a step makes and the mask of each:
\* inserted and woken say whether task_wait_event linked a node and whether
\* task_wake_event unlinked one.
wl_edits(inserted, woken, wl) ==
    (IF inserted THEN {[op |-> "insert", masked |-> TRUE]} ELSE {})
    \cup (IF woken THEN {[op |-> "wake", masked |-> TRUE]} ELSE {})
    \cup (IF reaped_waiters(wl) # {}
          THEN {[op |-> "reap", masked |-> irqm.masked]} ELSE {})

\* Observer of a step that calls schedule(), after linking a node or not.
ObsWl(entry, inserted) ==
    /\ irqm' = [mask_after(irqm,
                           schedule_path(task_head',
                                         runnable_count(tasks', task_head'),
                                         task_cur' # task_cur),
                           task_cur, task_cur', pc[task_cur'] = "new", entry)
                  EXCEPT !.last = [path |-> @.path, pre |-> @.pre,
                                   edits |-> wl_edits(inserted, FALSE,
                                                      wait_list)]]
    /\ UNCHANGED <<lastop, cascade, lost_wakes, runVars, heapVars, ptyVars,
                   pty_out, gl, wm, inq, gpu, stk, tmr, vq, kbd, evq>>

\* Observer of a step that does not call schedule().
WlQuiet(woken) ==
    /\ irqm' = [irqm EXCEPT !.last = [path |-> "none", pre |-> irqm.masked,
                                      edits |-> wl_edits(FALSE, woken,
                                                         wait_list)]]
    /\ UNCHANGED <<lastop, cascade, lost_wakes, runVars, heapVars, ptyVars,
                   pty_out, gl, wm, inq, gpu, stk, tmr, vq, kbd, evq>>

\* Observer of task_kill(id): schedule() is called when the caller kills
\* itself.
ObsWlKill(id, entry) ==
    IF KillMarks(id) /\ id = task_cur THEN ObsWl(entry, FALSE)
    ELSE WlQuiet(FALSE)

\* An interrupt is taken only while IRQs are not masked.
WlIrq(poll) ==
    /\ ~irqm.masked
    /\ IrqEntryTick(poll)
    /\ WlQuiet(Len(wait_list') < Len(wait_list))

WlNext ==
    \/ BootCreateInit /\ WlQuiet(FALSE)
    \/ \E delta \in Deltas, b \in BOOLEAN :
          BootSchedule(delta, "none") /\ ObsWl(b, FALSE)
    \/ TaskCreate /\ WlQuiet(FALSE)
    \/ \E delta \in Deltas, b \in BOOLEAN :
          Yield(delta, "none") /\ ObsWl(b, FALSE)
    \/ \E id \in 1..MaxTasks, delta \in Deltas, b \in BOOLEAN :
          TaskKill(id, delta, "none") /\ ObsWlKill(id, b)
    \/ WaitEventEnter /\ WlQuiet(FALSE)
    \/ \E event_id \in Events, delta \in Deltas, b \in BOOLEAN :
          WaitEvent(event_id, delta, "none") /\ ObsWl(b, TRUE)
    \/ \E event_id \in Events :
          WakeEvent(event_id) /\ WlQuiet(Len(wait_list') < Len(wait_list))
    \/ \E poll \in {"key", "mouse"} : WlIrq(poll)

WlSpec == MaskInit /\ [][WlNext]_vars

\* ================================================================ timer
(***************************************************************************)
(* Part 12: timer.c.  tmr.ticks is the counter cntpct_el0, tmr.last_ms the *)
(* static last_ms.  The runs begin after timer_init, which stores the      *)
(* milliseconds the counter shows at that moment in last_ms;               *)
(* scheduler_tick starts at 0.                                             *)
(***************************************************************************)
\* timer_get_ms: (uint32_t)(ticks * 1000 / counter_freq).  The runs stay
\* below MaxClockTicks, far from where the uint32_t values wrap.
timer_get_ms(T) == (T.ticks * 1000) \div CounterFreq

\* timer_init with the counter at ticks.
timer_init(ticks) ==
    [ticks |-> ticks,
     last_ms |-> timer_get_ms([ticks |-> ticks, last_ms |-> 0])]

\* The delta timer_poll_and_advance hands to scheduler_tick_advance (0: no
\* call).
timer_delta(T) ==
    IF timer_get_ms(T) > T.last_ms THEN timer_get_ms(T) - T.last_ms ELSE 0

\* timer_poll_and_advance: last_ms follows the clock.
timer_poll_and_advance(T) ==
    IF timer_get_ms(T) > T.last_ms THEN [T EXCEPT !.last_ms = timer_get_ms(T)]
    ELSE T

\* The wake tick timer_sleep_ms(ms) passes to task_block_current_until.
sleep_wake(T, ms) == timer_get_ms(T) + ms

tmrRest == <<lastop, cascade, lost_wakes, runVars, heapVars, ptyVars,
             pty_out, gl, wm, inq, gpu, irqm, stk, vq, kbd, evq>>

\* Observer of a step that calls schedule(), which polls the timer.
TmPoll ==
    /\ tmr' = timer_poll_and_advance(tmr)
    /\ UNCHANGED tmrRest

TmQuiet == UNCHANGED <<tmr, tmrRest>>

\* The counter counts.
ClockAdvance ==
    /\ tmr.ticks < MaxClockTicks
    /\ tmr' = [tmr EXCEPT !.ticks = @ + 1]
    /\ UNCHANGED <<schedVars, tmrRest>>

\* timer_sleep_ms(ms)
TimerSleep(ms) ==
    BlockUntil(sleep_wake(tmr, ms), timer_delta(tmr), "none") /\ TmPoll

\* The counter values timer_init can find, and the sleeps of the runs.
BootCounters == {0, 2, 3}
SleepMs == {1, 2}

TimerInit ==
    /\ BaseInit /\ scn = NoScn /\ PtyInit /\ pty_io = NoIo
    /\ wm = WmInit0 /\ inq = NoInq /\ gpu = NoGpu
    /\ irqm = NoIrqm /\ stk = NoStk /\ vq = NoVq /\ evq = NoEvq /\ kbd = NoKbd
    /\ \E ticks \in BootCounters : tmr = timer_init(ticks)

TimerNext ==
    \/ BootCreateInit /\ TmQuiet
    \/ BootSchedule(timer_delta(tmr), "none") /\ TmPoll
    \/ TaskCreate /\ TmQuiet
    \/ Yield(timer_delta(tmr), "none") /\ TmPoll
    \/ \E ms \in SleepMs : TimerSleep(ms)
    \/ ClockAdvance

TimerSpec == TimerInit /\ [][TimerNext]_vars

\* ========================================================= bounded rings
(***************************************************************************)
(* Part 13: the four bounded rings side by side: the input and the output  *)
(* ring of a PTY (pty_buf, pty_head, pty_tail and pty_out) and the key and *)
(* the mouse queue of input.c (their indices in inq, their slots in evq).  *)
(* evq.last is the last call: the ring, "write" or "read", whether the     *)
(* ring was full before, the byte or event written, the one read.          *)
(***************************************************************************)
\* pty_read_out: the byte returned (0 from an empty ring) and the ring.
pty_read_out(o) ==
    IF o.h = o.t THEN [c |-> 0, o |-> o]
    ELSE [c |-> PtyLoad(o.buf, o.t), o |-> [o EXCEPT !.t = (@ + 1) % PTY_OUT_SIZE]]

\* The slots of key_queue and mouse_queue after input_push_event, called
\* with the statics q: q[*head] is written when the queue has room.
input_store(E, q, type, code, value) ==
    LET key == ToKeyQueue(type, code)
        head == IF key THEN q.key_head ELSE q.mouse_head
        tail == IF key THEN q.key_tail ELSE q.mouse_tail
        ev == [type |-> StoredType(type, code), code |-> code, value |-> value]
    IN  IF ~QueueHasRoom(head, tail) THEN E
        ELSE IF key THEN [E EXCEPT !.key = PtyStore(@, head, ev)]
        ELSE [E EXCEPT !.mouse = PtyStore(@, head, ev)]

\* input_pop_key_event: 0 from an empty queue, else the oldest event.
input_pop_key_event(E, q) ==
    IF q.key_tail = q.key_head THEN [q |-> q, ok |-> 0, ev |-> 0]
    ELSE [q |-> [q EXCEPT !.key_tail = (@ + 1) % EVENT_QUEUE_SIZE],
          ok |-> 1, ev |-> PtyLoad(E.key, q.key_tail)]

\* input_pop_mouse_event
input_pop_mouse_event(E, q) ==
    IF q.mouse_tail = q.mouse_head THEN [q |-> q, ok |-> 0, ev |-> 0]
    ELSE [q |-> [q EXCEPT !.mouse_tail = (@ + 1) % EVENT_QUEUE_SIZE],
          ok |-> 1, ev |-> PtyLoad(E.mouse, q.mouse_tail)]

\* What a ring with h unread entries holds when the runs begin: the oldest
\* and the newest entry are known.
RingSeed(h) == [i \in (IF h = 0 THEN {} ELSE {0, h - 1}) |-> 1 + (i % 5)]

RingBytes == {65, 66}

RingInit ==
    /\ SchedHeapInit /\ scn = NoScn /\ pty_io = NoIo /\ gl = NoGl
    /\ wm = WmInit0 /\ gpu = NoGpu
    /\ irqm = NoIrqm /\ stk = NoStk /\ tmr = NoTmr /\ vq = NoVq
    /\ kbd = NoKbd
    /\ pty_tail = 0
    /\ \E h \in {0, PTY_IN_SIZE - 2} : pty_head = h /\ pty_buf = RingSeed(h)
    /\ \E h \in {0, PTY_OUT_SIZE - 2} :
          pty_out = [buf |-> RingSeed(h), h |-> h, t |-> 0]
    /\ \E k \in Backlogs, m \in Backlogs :
          /\ inq = [NoInq EXCEPT !.key_head = k, !.mouse_head = m]
          /\ evq = [NoEvq EXCEPT !.key = RingSeed(k), !.mouse = RingSeed(m)]

ringRest == <<schedVars, heapVars, pty_io, gl, wm, gpu, irqm, stk, tmr, vq,
              kbd>>

\* The history of a ring call.
RingLog(E, ring, op, full, c, got) ==
    [E EXCEPT !.ops = @ + 1,
              !.last = [ring |-> ring, op |-> op, full |-> full, c |-> c,
                        got |-> got]]

RingWriteIn(c) ==
    LET w == pty_write_in(pty_buf, pty_head, pty_tail, c)
    IN  /\ evq.ops < MaxRingOps
        /\ pty_buf' = w.buf
        /\ pty_head' = w.h
        /\ evq' = RingLog(evq, "in", "write",
                          (pty_head + 1) % PTY_IN_SIZE = pty_tail, c, 0)
        /\ UNCHANGED <<pty_tail, pty_out, inq, ringRest>>

RingReadIn ==
    LET r == pty_read_in(pty_buf, pty_head, pty_tail)
    IN  /\ evq.ops < MaxRingOps
        /\ pty_tail' = r.t
        /\ evq' = RingLog(evq, "in", "read", FALSE, 0, r.c)
        /\ UNCHANGED <<pty_buf, pty_head, pty_out, inq, ringRest>>

RingWriteOut(c) ==
    /\ evq.ops < MaxRingOps
    /\ pty_out' = pty_write_out(pty_out, c)
    /\ evq' = RingLog(evq, "out", "write",
                      (pty_out.h + 1) % PTY_OUT_SIZE = pty_out.t, c, 0)
    /\ UNCHANGED <<pty_buf, pty_head, pty_tail, inq, ringRest>>

RingReadOut ==
    /\ evq.ops < MaxRingOps
    /\ pty_out' = pty_read_out(pty_out).o
    /\ evq' = RingLog(evq, "out", "read", FALSE, 0, pty_read_out(pty_out).c)
    /\ UNCHANGED <<pty_buf, pty_head, pty_tail, inq, ringRest>>

RingPush(type, code, value) ==
    /\ evq.ops < MaxRingOps
    /\ inq' = input_push_event(inq, type, code, value)
    /\ evq' = RingLog(input_store(evq, inq, type, code, value),
                      IF ToKeyQueue(type, code) THEN "key" ELSE "mouse",
                      "write", ~inq'.last.pushed,
                      [type |-> StoredType(type, code), code |-> code,
                       value |-> value], 0)
    /\ UNCHANGED <<pty_buf, pty_head, pty_tail, pty_out, ringRest>>

RingPopKey ==
    /\ evq.ops < MaxRingOps
    /\ inq' = input_pop_key_event(evq, inq).q
    /\ evq' = RingLog(evq, "key", "read", FALSE, 0,
                      input_pop_key_event(evq, inq).ev)
    /\ UNCHANGED <<pty_buf, pty_head, pty_tail, pty_out, ringRest>>

RingPopMouse ==
    /\ evq.ops < MaxRingOps
    /\ inq' = input_pop_mouse_event(evq, inq).q
    /\ evq' = RingLog(evq, "mouse", "read", FALSE, 0,
                      input_pop_mouse_event(evq, inq).ev)
    /\ UNCHANGED <<pty_buf, pty_head, pty_tail, pty_out, ringRest>>

RingNext ==
    \/ \E c \in RingBytes : RingWriteIn(c)
    \/ RingReadIn
    \/ \E c \in RingBytes : RingWriteOut(c)
    \/ RingReadOut
    \/ \E e \in InputEvents : RingPush(e[1], e[2], e[3])
    \/ RingPopKey
    \/ RingPopMouse

RingSpec == RingInit /\ [][RingNext]_vars

\* ======================================================== tty streaming
(***************************************************************************)
(* Part 10: the keyboard loop of wm_compose for a focused window that has  *)
(* a tty.  A key event is [type, code, value]; value is 0 for a release,   *)
(* 1 for a press, 2 for a repeat.  The characters are their ASCII codes.   *)
(***************************************************************************)
scan_to_ascii ==
    <<0, 27, 49, 50, 51, 52, 53, 54, 55, 56, 57, 48, 45, 61, 8,
      9, 113, 119, 101, 114, 116, 121, 117, 105, 111, 112, 91, 93, 10, 0,
      97, 115, 100, 102, 103, 104, 106, 107, 108, 59, 39, 96, 0, 92, 122,
      120, 99, 118, 98, 110, 109, 44, 46, 47, 0, 42, 0, 32>>

scan_to_ascii_shift ==
    <<0, 27, 33, 64, 35, 36, 37, 94, 38, 42, 40, 41, 95, 43, 8,
      9, 81, 87, 69, 82, 84, 89, 85, 73, 79, 80, 123, 125, 10, 0,
      65, 83, 68, 70, 71, 72, 74, 75, 76, 58, 34, 126, 0, 124, 90,
      88, 67, 86, 66, 78, 77, 60, 62, 63, 0, 42, 0, 32>>

\* sizeof(scan_to_ascii)
ScanCodes == Len(scan_to_ascii)

\* The character of a key: CapsLock inverts Shift for the letters a..z.
tty_char(K, code) ==
    LET base == scan_to_ascii[code + 1]
        shifted == scan_to_ascii_shift[code + 1]
    IN  IF K.caps_lock /\ base >= 97 /\ base <= 122
        THEN (IF K.shift_state # 0 THEN base ELSE shifted)
        ELSE (IF K.shift_state # 0 THEN shifted ELSE base)

\* The tty branch of the loop body: Shift and CapsLock are tracked, a press
\* or repeat of a key below sizeof(scan_to_ascii) with a character other
\* than 0 goes to pty_write_in.
tty_stream(P, K, kev) ==
    IF ~(K.tty /\ kev.type = INPUT_TYPE_KEY) THEN [P |-> P, K |-> K]
    ELSE IF kev.code = 42 \/ kev.code = 54
    THEN [P |-> P, K |-> [K EXCEPT !.shift_state = kev.value]]
    ELSE IF kev.code = 58 /\ kev.value = 1
    THEN [P |-> P, K |-> [K EXCEPT !.caps_lock = ~@]]
    ELSE IF kev.value >= 1 /\ kev.code < ScanCodes /\ tty_char(K, kev.code) # 0
    THEN LET w == pty_write_in(P.buf, P.h, P.t, tty_char(K, kev.code))
         IN  [P |-> [P EXCEPT !.buf = w.buf, !.h = w.h], K |-> K]
    ELSE [P |-> P, K |-> K]

\* A loop body that streams to the tty before it looks at the window's queue.
key_to_window_tty_first(W, P, K, kev) ==
    [W |-> push_key(W, kev), P |-> tty_stream(P, K, kev).P,
     K |-> tty_stream(P, K, kev).K]

\* One key event of the compositor's loop: with a focused window whose input
\* queue has room the event is stored there and, inside the same branch, the
\* tty is served; with a full queue or no focus nothing else happens.
key_to_window(W, P, K, kev) ==
    LET f == W.focused_window
    IN  IF f = NULL
           \/ (W.wins[f].input_head + 1) % WM_INPUT_QUEUE_SIZE
                  = W.wins[f].input_tail
        THEN [W |-> W, P |-> P, K |-> K]
        ELSE [W |-> push_key(W, kev), P |-> tty_stream(P, K, kev).P,
              K |-> tty_stream(P, K, kev).K]

\* The key events of the runs: a, 1, ',', Esc, left Shift, CapsLock, left
\* Ctrl (no character), F1 (beyond the tables); released, pressed, repeated.
TtyKeyEvents ==
    {[type |-> INPUT_TYPE_KEY, code |-> c, value |-> v] :
        c \in {30, 2, 42, 58, 29, 59}, v \in 0..1}
    \cup {[type |-> INPUT_TYPE_KEY, code |-> 30, value |-> 2]}

\* The unread events of the window's queue and the unread bytes of the PTY's
\* input ring when the runs begin.
TtyBacklogs == {0, WM_INPUT_QUEUE_SIZE - 3}
TtyPtyBacklogs == {0, PTY_IN_SIZE - 2}

\* The terminal has created its window, which has the focus, and has set
\* win->tty to its PTY.
TtyInit ==
    /\ BaseInit /\ scn = NoScn /\ pty_io = NoIo /\ UiInit
    /\ inq = NoInq /\ gpu = NoGpu
    /\ irqm = NoIrqm /\ stk = NoStk /\ tmr = NoTmr /\ vq = NoVq /\ evq = NoEvq
    /\ kbd = [NoKbd EXCEPT !.tty = TRUE]
    /\ pty_buf = [i \in {} |-> 0]
    /\ pty_tail = 0
    /\ pty_head \in TtyPtyBacklogs
    /\ \E g \in WinGeoms, b \in TtyBacklogs :
          wm = [wm_create_window([WmInit0 EXCEPT !.room = 1],
                                 g.x, g.y, g.w, g.h).W
                  EXCEPT !.wins[1].input_head = b]

ttyRest == <<schedVars, heapVars, pty_io, pty_out, gl, inq, gpu, irqm, stk,
             tmr, vq, evq>>

\* wm_compose takes one event from the key queue.
TtyKey(kev) ==
    LET r == key_to_window(wm, [buf |-> pty_buf, h |-> pty_head, t |-> pty_tail],
                           kbd, kev)
    IN  /\ wm.keys.offered < MaxTtyKeys
        /\ wm' = [r.W EXCEPT !.keys.offered = @ + 1]
        /\ pty_buf' = r.P.buf
        /\ pty_head' = r.P.h
        /\ pty_tail' = pty_tail
        /\ kbd' = [r.K EXCEPT !.last =
                      [kev |-> kev,
                       ch |-> IF kev.code < ScanCodes
                              THEN tty_char(kbd, kev.code) ELSE 0,
                       wrote |-> r.P.h # pty_head]]
        /\ UNCHANGED ttyRest

\* The terminal's loop while (wm_pop_key_event(win, &ev)) empties the
\* window's queue.
TtyPop ==
    LET f == wm.focused_window
    IN  /\ f # NULL
        /\ wm.wins[f].input_head # wm.wins[f].input_tail
        /\ wm' = [wm EXCEPT !.wins[f].input_tail = wm.wins[f].input_head]
        /\ kbd' = [kbd EXCEPT !.last = NoKbd.last]
        /\ UNCHANGED <<pty_buf, pty_head, pty_tail, ttyRest>>

TtyNext ==
    \/ \E kev \in TtyKeyEvents : TtyKey(kev)
    \/ TtyPop

TtySpec == TtyInit /\ [][TtyNext]_vars

\* ======================================================= virtio input
(***************************************************************************)
(* Part 14: the event queue of one virtio input device.  vq.avail and      *)
(* vq.used are the rings of the queue memory, vq.avail_idx and vq.used_idx *)
(* their 16-bit indices (avail[1], used[1]), vq.ev_buf the pinned event    *)
(* buffers, vq.last_used_idx the driver's cursor.  virtio_input_poll runs  *)
(* in task context (schedule() calls irq_poll_and_dispatch before it masks *)
(* IRQs, wm_compose calls the poll directly) and in IRQ context (the       *)
(* fallback path of irq_entry_c), so vq.task and vq.irq hold the locals of *)
(* the call of each context: where it stands, the used_idx it read, the    *)
(* descriptor it took.  History: the number of events the device           *)
(* delivered, how often the driver consumed each of them (takes[0] counts  *)
(* the entries consumed that hold no new event), the loop iterations, the  *)
(* interrupts, and whether the last step was a poll returning.             *)
(***************************************************************************)
VIRTIO_INPUT_EV_SYN == 0
VIRTIO_INPUT_EV_KEY == 1
VIRTIO_INPUT_EV_REL == 2
VIRTIO_INPUT_EV_ABS == 3
VqMaxSize == 32          \* dev->qsize = qmax < 32 ? qmax : 32
MaxVqEvents == 3         \* VqSpec: the events the device delivers
MaxVqIters == 4          \* VqSpec: the loop iterations of the polls
MaxVqIrqs == 2           \* VqSpec: the interrupts of a run

\* virtio_input_init for a device whose QUEUE_NUM_MAX is qmax > 0: every
\* descriptor j points at ev_buf[j] and is published, avail[1] = qsize.
virtio_input_init(qmax) ==
    LET qsize == IF qmax < VqMaxSize THEN qmax ELSE VqMaxSize
    IN  [NoVq EXCEPT
           !.qsize = qsize,
           !.avail = [j \in 0..(qsize - 1) |-> j],
           !.avail_idx = qsize % IdxMod,
           !.used = [j \in 0..(qsize - 1) |-> [id |-> 0, n |-> 0]],
           !.used_idx = 0,
           !.ev_buf = [j \in 0..(qsize - 1) |->
                         [type |-> 0, code |-> 0, value |-> 0]],
           !.last_used_idx = 0,
           !.takes = [n \in 0..MaxVqEvents |-> 0]]

\* The queue after the device delivered b >= qsize events and polls that ran
\* one after the other consumed them all: descriptor j came back to slot j
\* of both rings each time round.
VqAged(V, b) ==
    IF b = 0 THEN V
    ELSE [V EXCEPT !.avail_idx = (b + V.qsize) % IdxMod,
                   !.used = [j \in 0..(V.qsize - 1) |-> [id |-> j, n |-> 0]],
                   !.used_idx = b % IdxMod,
                   !.last_used_idx = b % IdxMod]

\* The device fills the next available buffer with the event ev and adds it
\* to the used ring; n numbers the events of the run.
vq_device(V, ev) ==
    LET d == V.avail[V.used_idx % V.qsize]
        n == V.delivered + 1
    IN  [V EXCEPT !.ev_buf[d] = ev,
                  !.used[V.used_idx % V.qsize] = [id |-> d, n |-> n],
                  !.used_idx = (@ + 1) % IdxMod,
                  !.delivered = n]

\* uint16_t used_idx = used[1], read once before the loop.
poll_begin(V, ctx) ==
    [V EXCEPT ![ctx] = [pc |-> "loop", used_idx |-> V.used_idx, desc_idx |-> 0]]

\* while (dev->last_used_idx != used_idx)
poll_more(V, ctx) == V.last_used_idx # V[ctx].used_idx

\* The first half of an iteration: desc_idx is read from the used ring at
\* last_used_idx % qsize, ev = &ev_buf[desc_idx].
poll_take(V, ctx) ==
    LET e == V.used[V.last_used_idx % V.qsize]
    IN  [V EXCEPT ![ctx].pc = "put",
                  ![ctx].desc_idx = e.id,
                  !.takes[e.n] = @ + 1,
                  !.iters = @ + 1]

\* The event the iteration reads from ev_buf[desc_idx].
poll_event(V, ctx) == V.ev_buf[V[ctx].desc_idx]

\* The second half: the descriptor goes back on the available ring at
\* a_idx % qsize, avail[1] = a_idx + 1, dev->last_used_idx++.
poll_put(V, ctx) ==
    [V EXCEPT !.avail[V.avail_idx % V.qsize] = V[ctx].desc_idx,
              !.avail_idx = (@ + 1) % IdxMod,
              !.last_used_idx = (@ + 1) % IdxMod,
              ![ctx].pc = "loop"]

\* The loop is left, virtio_input_poll returns.
poll_end(V, ctx) == [V EXCEPT ![ctx] = NoPoll]

\* The statics of input.c after the poll handed ev to input_push_event: only
\* EV_KEY, EV_ABS and EV_REL events are handed on.
poll_push(q, ev) ==
    IF ev.type = VIRTIO_INPUT_EV_KEY
    THEN input_push_event(q, INPUT_TYPE_KEY, ev.code, ev.value)
    ELSE IF ev.type = VIRTIO_INPUT_EV_ABS
    THEN input_push_event(q, INPUT_TYPE_ABS, ev.code, ev.value)
    ELSE IF ev.type = VIRTIO_INPUT_EV_REL
    THEN input_push_event(q, INPUT_TYPE_REL, ev.code, ev.value)
    ELSE q

\* The task_wake_event calls of that input_push_event call.
poll_signals(q, ev) ==
    IF ev.type \in {VIRTIO_INPUT_EV_KEY, VIRTIO_INPUT_EV_ABS,
                    VIRTIO_INPUT_EV_REL}
    THEN poll_push(q, ev).last.evs ELSE <<>>

vqRest == <<task_head, task_cur, next_task_id, pc, lastop, cascade,
            lost_wakes, runVars, heapVars, ptyVars, pty_out, gl, wm, gpu,
            irqm, stk, tmr, kbd, evq>>

\* A step that is not a poll returning.
VqStep(V) == [V EXCEPT !.returned = FALSE]
\* A poll returned.
VqReturned(V) == [V EXCEPT !.returned = TRUE]

\* The device delivers an event while no interrupt handler runs.
VqDevice(ev) ==
    /\ vq.delivered < MaxVqEvents
    /\ vq.used_idx # vq.avail_idx
    /\ vq' = VqStep(vq_device(vq, ev))
    /\ UNCHANGED <<tasks, wait_list, scheduler_tick, preempt_requested, inq,
                   vqRest>>

\* virtio_input_poll is called in task context.
VqTaskBegin ==
    /\ vq.task.pc = "idle" /\ vq.irq.pc = "idle"
    /\ vq' = VqStep(poll_begin(vq, "task"))
    /\ UNCHANGED <<tasks, wait_list, scheduler_tick, preempt_requested, inq,
                   vqRest>>

\* The used entry is read and its event handed to input_push_event, whose
\* wake-ups follow.
VqTake(ctx) ==
    /\ vq[ctx].pc = "loop" /\ poll_more(vq, ctx)
    /\ vq.iters < MaxVqIters
    /\ LET V == poll_take(vq, ctx)
           ev == poll_event(V, ctx)
           d == wake_all(tasks, task_head, wait_list, poll_signals(inq, ev))
       IN  /\ vq' = VqStep(V)
           /\ inq' = poll_push(inq, ev)
           /\ tasks' = d.ts
           /\ wait_list' = d.wl
    /\ UNCHANGED <<scheduler_tick, preempt_requested, vqRest>>

VqTaskTake == vq.irq.pc = "idle" /\ VqTake("task")

\* The descriptor is returned and the cursor advanced.
VqTaskPut ==
    /\ vq.task.pc = "put" /\ vq.irq.pc = "idle"
    /\ vq' = VqStep(poll_put(vq, "task"))
    /\ UNCHANGED <<tasks, wait_list, scheduler_tick, preempt_requested, inq,
                   vqRest>>

\* The poll of the task context returns.
VqTaskEnd ==
    /\ vq.task.pc = "loop" /\ vq.irq.pc = "idle" /\ ~poll_more(vq, "task")
    /\ vq' = VqReturned(poll_end(vq, "task"))
    /\ UNCHANGED <<tasks, wait_list, scheduler_tick, preempt_requested, inq,
                   vqRest>>

\* irq_entry_c on the fallback path, wherever the task context stands:
\* scheduler_tick_advance(1), then irq_poll_and_dispatch() calls the poll.
VqIrqEnter ==
    /\ vq.irq.pc = "idle"
    /\ vq.irqs < MaxVqIrqs
    /\ LET a == scheduler_tick_advance(tasks, task_head, scheduler_tick, 1)
       IN  /\ tasks' = a.ts
           /\ scheduler_tick' = a.tick
    /\ vq' = VqStep([poll_begin(vq, "irq") EXCEPT !.irqs = @ + 1])
    /\ UNCHANGED <<wait_list, preempt_requested, inq, vqRest>>

\* An iteration of the poll in IRQ context, first half.
VqIrqTake == vq.irq.pc = "loop" /\ VqTake("irq")

\* An iteration of the poll in IRQ context, second half.
VqIrqPut ==
    /\ vq.irq.pc = "put"
    /\ vq' = VqStep(poll_put(vq, "irq"))
    /\ UNCHANGED <<tasks, wait_list, scheduler_tick, preempt_requested, inq,
                   vqRest>>

\* The poll of the handler returns, scheduler_request_preempt() follows and
\* the interrupted context goes on.
VqIrqExit ==
    /\ vq.irq.pc = "loop" /\ ~poll_more(vq, "irq")
    /\ vq' = VqReturned(poll_end(vq, "irq"))
    /\ preempt_requested' = 1
    /\ UNCHANGED <<tasks, wait_list, scheduler_tick, inq, vqRest>>

\* What QUEUE_NUM_MAX reads, the events delivered before the runs begin, and
\* the events of the runs: the key A, a relative movement, a SYN report.
VqQueueMax == {1, 2, 64}
VqStarts == {0, IdxMod - 2}
VqEvents ==
    {[type |-> VIRTIO_INPUT_EV_KEY, code |-> 30, value |-> 1],
     [type |-> VIRTIO_INPUT_EV_REL, code |-> 0, value |-> 5],
     [type |-> VIRTIO_INPUT_EV_SYN, code |-> 0, value |-> 0]}

VqInit ==
    /\ SchedHeapInit /\ UiInit /\ scn = NoScn /\ PtyInit /\ pty_io = NoIo
    /\ wm = WmInit0 /\ inq = NoInq /\ gpu = NoGpu
    /\ irqm = NoIrqm /\ stk = NoStk /\ tmr = NoTmr /\ evq = NoEvq
    /\ kbd = NoKbd
    /\ \E qmax \in VqQueueMax, b \in VqStarts :
          vq = VqAged(virtio_input_init(qmax), b)

VqNext ==
    \/ \E ev \in VqEvents : VqDevice(ev)
    \/ VqTaskBegin
    \/ VqTaskTake
    \/ VqTaskPut
    \/ VqTaskEnd
    \/ VqIrqEnter
    \/ VqIrqTake
    \/ VqIrqPut
    \/ VqIrqExit

VqSpec == VqInit /\ [][VqNext]_vars

\* ================================================================== gpu
(***************************************************************************)
(* Part 7: the virtio-gpu driver of src/kernel/virtio.c.  The device is    *)
(* an input of every command: it answers with the expected type ("ok"),    *)
(* answers with an error type ("error") or does not answer ("silent").     *)
(***************************************************************************)
DevAnswers == {"ok", "error", "silent"}

\* The response type each command is checked against.
Expected(cmd) ==
    IF cmd = "GET_DISPLAY_INFO" THEN "OK_DISPLAY_INFO" ELSE "OK_NODATA"

\* The type field of the response area after the device has acted: the area
\* is zeroed before the command is queued.
Response(cmd, dev) ==
    IF dev = "ok" THEN Expected(cmd)
    ELSE IF dev = "error" THEN "ERR_UNSPEC"
    ELSE "ZERO"

\* virtio_gpu_send_command: idx = avail[1] is stored back incremented, the
\* wait loop runs while used[1] == idx and gives up after 20000000 rounds;
\* otherwise the response area is copied out.  When an earlier command was
\* never answered, used[1] differs from idx at once and the loop is skipped.
virtio_gpu_send_command(g, cmd, dev) ==
    IF g.gpu_mmio_base = 0 \/ g.gpu_qmem = 0
    THEN [g |-> g, rc |-> -1, type |-> "NONE"]
    ELSE IF g.used = g.avail /\ dev = "silent"
    THEN [g |-> [g EXCEPT !.avail = (@ + 1) % IdxMod,
                          !.log = Append(@, [cmd |-> cmd, rc |-> -1,
                                             type |-> "NONE"])],
          rc |-> -1, type |-> "NONE"]
    ELSE [g |-> [g EXCEPT !.avail = (@ + 1) % IdxMod,
                          !.used = IF dev = "silent" THEN @
                                   ELSE (@ + 1) % IdxMod,
                          !.log = Append(@, [cmd |-> cmd, rc |-> 0,
                                             type |-> Response(cmd, dev)])],
          rc |-> 0, type |-> Response(cmd, dev)]

\* The scanout virtio_gpu_init takes from the display info: the first enabled
\* mode, or 800x600 on scanout 0 when the width it found is 0.
gpu_set_mode(g, disp) ==
    IF disp.enabled /\ disp.w # 0
    THEN [g EXCEPT !.gpu_scanout_id = disp.id, !.gpu_w = disp.w,
                   !.gpu_h = disp.h]
    ELSE [g EXCEPT !.gpu_scanout_id = 0, !.gpu_w = SCREEN_W,
                   !.gpu_h = SCREEN_H]

\* GET_DISPLAY_INFO in virtio_gpu_init: a failed call or another response
\* type ends the initialisation with -1.
gpu_display_info(g, dev, disp) ==
    LET s == virtio_gpu_send_command(g, "GET_DISPLAY_INFO", dev)
    IN  IF s.rc < 0 \/ s.type # "OK_DISPLAY_INFO"
        THEN [g |-> s.g, ret |-> -1, go |-> FALSE]
        ELSE [g |-> gpu_set_mode(s.g, disp), ret |-> 0, go |-> TRUE]

\* A command of virtio_gpu_init that ends the initialisation when it fails.
gpu_init_cmd(r, cmd, dev) ==
    IF ~r.go THEN r
    ELSE LET s == virtio_gpu_send_command(r.g, cmd, dev)
         IN  IF s.rc < 0 \/ s.type # "OK_NODATA"
             THEN [g |-> s.g, ret |-> -1, go |-> FALSE]
             ELSE [g |-> s.g, ret |-> 0, go |-> TRUE]

\* SET_SCANOUT in virtio_gpu_init: its failure is printed and the
\* initialisation continues; then gpu_active = 1; return 0.
gpu_set_scanout(r, dev) ==
    IF ~r.go THEN r
    ELSE [g |-> [virtio_gpu_send_command(r.g, "SET_SCANOUT", dev).g
                     EXCEPT !.gpu_active = 1],
          ret |-> 0, go |-> TRUE]

\* virtio_gpu_init: probe is what the MMIO registers show (no virtio-gpu
\* slot, FEATURES_OK not accepted, QUEUE_NUM_MAX 0, or a usable device).
virtio_gpu_init(g, probe, disp, d) ==
    IF probe # "ready" THEN [g |-> g, ret |-> -1, go |-> FALSE]
    ELSE gpu_set_scanout(
             gpu_init_cmd(
                 gpu_init_cmd(
                     gpu_display_info([g EXCEPT !.gpu_mmio_base = 1,
                                                !.gpu_qmem = 1], d[1], disp),
                     "RESOURCE_CREATE_2D", d[2]),
                 "RESOURCE_ATTACH_BACKING", d[3]),
             d[4])

\* Fault: virtio_gpu_flush without if (!gpu_active) return.
virtio_gpu_flush_unguarded(g, d) ==
    LET t == virtio_gpu_send_command(g, "TRANSFER_TO_HOST_2D", d[1])
    IN  IF t.rc < 0 \/ t.type # "OK_NODATA" THEN t.g
        ELSE virtio_gpu_send_command(t.g, "RESOURCE_FLUSH", d[2]).g

\* virtio_gpu_flush: nothing unless gpu_active; TRANSFER_TO_HOST_2D, and
\* RESOURCE_FLUSH when the transfer succeeded.
virtio_gpu_flush(g, d) ==
    IF g.gpu_active = 0 THEN g
    ELSE LET t == virtio_gpu_send_command(g, "TRANSFER_TO_HOST_2D", d[1])
         IN  IF t.rc < 0 \/ t.type # "OK_NODATA" THEN t.g
             ELSE virtio_gpu_send_command(t.g, "RESOURCE_FLUSH", d[2]).g

Probes == {"absent", "features_rejected", "no_queue", "ready"}

\* The display info of the device: no enabled mode, an enabled mode on
\* scanout 0 or 1, an enabled mode of width 0.
Displays ==
    {[enabled |-> FALSE, id |-> 0, w |-> 0, h |-> 0],
     [enabled |-> TRUE, id |-> 0, w |-> 1024, h |-> 768],
     [enabled |-> TRUE, id |-> 1, w |-> SCREEN_W, h |-> SCREEN_H],
     [enabled |-> TRUE, id |-> 15, w |-> 0, h |-> SCREEN_H]}

\* kernel_main calls virtio_gpu_init once.
GpuInitCall(probe, disp, d) ==
    /\ gpu.inits = 0
    /\ LET r == virtio_gpu_init(gpu, probe, disp, d)
       IN  gpu' = [r.g EXCEPT !.inits = 1, !.ret = r.ret, !.sent = r.g.log]

\* A caller of virtio_gpu_flush: fb_flush, wm_compose, the image viewer.
GpuFlush(d) ==
    /\ gpu.flushes < MaxFlushes
    /\ LET g == virtio_gpu_flush([gpu EXCEPT !.log = <<>>], d)
       IN  gpu' = [g EXCEPT !.flushes = @ + 1, !.flushed = g.log,
                            !.log = gpu.log \o g.log]

GpuNext ==
    \/ \E probe \in Probes, disp \in Displays,
          d \in [1..4 -> DevAnswers] : GpuInitCall(probe, disp, d)
    \/ \E d \in [1..2 -> DevAnswers] : GpuFlush(d)

gpuRest == <<schedVars, heapVars, ptyVars, pty_out, gl, wm, inq, hwVars>>

GpuSpec == Init /\ [][GpuNext /\ UNCHANGED gpuRest]_vars

\* ============================================ properties of the scheduler
\* C1: schedule() never context-switches into a task whose zombie flag is
\* set: in every step that changes task_cur, the task switched to is a task of
\* the ring whose zombie flag is clear at the switch.
C1_NoSwitchIntoZombie ==
    [][task_cur' # task_cur =>
          /\ task_exists(tasks', task_head', task_cur')
          /\ ~tasks'[task_cur'].zombie]_vars

\* C1 case: a zombie sits in the ring, suspended inside the schedule() call of
\* task_exit, and schedule() has switched to another task.
C1_Witness ==
    \E z \in RingSet(tasks, task_head) :
        /\ tasks[z].zombie /\ z # task_cur /\ pc[z] = "in_exit"
        /\ task_cur # BOOT /\ pc[task_cur] = "run"

\* C2: a zombie is never freed while it is the current context: a task that
\* leaves the ring in a step is neither the current task before the step nor
\* after it; and every schedule() call frees every zombie other than the
\* context it runs on, so a zombie is freed by the next schedule() that runs
\* on another task's stack.
C2_ZombieFreedOffStack ==
    [][/\ \A t \in RingSet(tasks, task_head) \ RingSet(tasks', task_head') :
              t # task_cur /\ t # task_cur'
       /\ lastop'.sched =>
              \A t \in RingSet(tasks', task_head') :
                  tasks'[t].zombie => t = task_cur]_vars

\* C2 case: one task has been freed by a schedule() on the other task's stack,
\* and the other task, a zombie itself, is still the current context after the
\* schedule() call of its task_exit.
C2_Witness ==
    /\ task_cur # BOOT
    /\ tasks[task_cur].zombie /\ pc[task_cur] = "exit_loop"
    /\ task_exists(tasks, task_head, task_cur)
    /\ \E z \in 1..(next_task_id - 1) : ~task_exists(tasks, task_head, z)

\* The tasks of the ring that descend from a task of S through parent_id.
RECURSIVE DescendantsOf(_, _, _, _)
DescendantsOf(ts, head, S, fuel) ==
    LET kids == {t \in RingSet(ts, head) : ts[t].parent_id \in S /\ t \notin S}
    IN  IF kids = {} \/ fuel = 0 THEN S
        ELSE DescendantsOf(ts, head, S \cup kids, fuel - 1)

Descendants(ts, head, id) == DescendantsOf(ts, head, {id}, MaxIds) \ {id}

\* C3: when task_kill(id) marks its target and returns 0, every descendant of
\* the target through parent_id links has its zombie flag set and its function
\* pointer null.  Stated for the calls that return without a schedule() in
\* between, those whose target is not the caller, made by a caller that is
\* not a zombie itself.
C3_KillMarksAllDescendants ==
    [][\A id \in TaskIds :
          (/\ Running /\ id # task_cur /\ ~tasks[task_cur].zombie
           /\ KillMarks(id) /\ TaskKill(id, 0, "none")) =>
              \A d \in Descendants(tasks', task_head', id) :
                  tasks'[d].zombie /\ ~tasks'[d].fn]_vars

\* C4: task_kill on the id of the running task does not return to its caller:
\* the schedule() it calls switches to another task.
C4_SelfKillNeverReturns ==
    [][\A delta \in Deltas, poll \in Polls :
          (KillMarks(task_cur) /\ TaskKill(task_cur, delta, poll)) =>
              task_cur' # task_cur]_vars

\* C5: init creates P, P creates C1 and C2; after task_kill(P), whichever task
\* issued it, two calls of schedule() are enough for P, C1 and C2 all to be
\* gone from the ring.  The observer counts the schedule() calls after which
\* one of the three still exists.
C5_CascadeWithinTwoSchedules == cascade.scheds <= 2

\* C6: a wake_event(id) executed before a task calls wait_event(id) is lost:
\* the later wait_event(id) blocks the task until another wake_event(id).  A
\* task that owns a waiter node for an event whose earlier wake-up was lost,
\* and whose function pointer is still moved aside (no wake_event for the
\* event since), is not executing.
C6_WaitAfterLostWakeBlocks ==
    \A i \in 1..Len(wait_list) :
        LET t == wait_list[i].task_id
        IN  (/\ wait_list[i].event_id \in lost_wakes
             /\ ~tasks[t].fn /\ tasks[t].block_type = "EVENT")
            => ~(task_cur = t /\ pc[t] = "run")

\* C7: task_wake_event(id) removes every waiter node for id and restores the
\* function pointer of every task that owned one (stated for the owners that
\* are not zombies), and leaves the nodes for other events, and the tasks
\* that own no node for id, unchanged.
C7_WakeEventWakesAllOwners ==
    [][lastop'.op = "wake_event" =>
          \A e \in lastop'.evs :
              /\ wait_list' = SelectSeq(wait_list, LAMBDA w : w.event_id # e)
              /\ \A i \in 1..Len(wait_list) :
                    (/\ wait_list[i].event_id = e
                     /\ ~tasks[wait_list[i].task_id].zombie)
                    => tasks'[wait_list[i].task_id].fn
              /\ \A t \in TaskIds :
                    (\A i \in 1..Len(wait_list) :
                        ~(wait_list[i].event_id = e /\ wait_list[i].task_id = t))
                    => tasks'[t] = tasks[t]]_vars

\* A task switched out with its function pointer moved aside by
\* task_block_current_until.
TimerBlocked(t) ==
    /\ task_exists(tasks, task_head, t) /\ t # task_cur
    /\ ~tasks[t].zombie
    /\ ~tasks[t].fn /\ tasks[t].saved_fn /\ tasks[t].block_type = "TIMER"

C9_NoPreemption ==
    [][/\ lastop'.op = "irq" =>
              /\ task_cur' = task_cur /\ pc' = pc /\ task_head' = task_head
              /\ \A t \in TaskIds :
                    tasks'[t] = tasks[t] \/ tasks'[t] = Restore(tasks, t)[t]
       /\ task_cur' # task_cur => lastop'.sched]_vars

\* C9 case: an IRQ entry has just woken a waiter (it freed its node), and the
\* woken task is still switched out while the interrupted task runs on.
C9_Witness ==
    /\ lastop.op = "irq" /\ lastop.irq_kfree
    /\ task_cur # BOOT /\ pc[task_cur] = "run"
    /\ \E t \in RingSet(tasks, task_head) :
          /\ t # task_cur /\ pc[t] = "in_sched"
          /\ tasks[t].fn /\ tasks[t].block_type = "NONE" /\ ~tasks[t].zombie

\* C10: the allocator is never entered from IRQ context, so no IRQ entry calls
\* kfree while the interrupted task is inside kmalloc.
C10_NoAllocatorReentryFromIrq ==
    ~(lastop.op = "irq" /\ lastop.irq_kfree /\ InKmalloc)

\* ------------------------------------------------------------------ C11
\* The runnable tasks of the ring.
Runnable(ts, head) == {t \in RingSet(ts, head) : ts[t].fn}

\* C11 as stated: a call of schedule() by a task that finds exactly one
\* runnable task performs no context switch.
C11_SingleRunnableNeverSwitches ==
    [][lastop'.sched /\ task_cur # BOOT
       /\ Cardinality(Runnable(tasks', task_head')) = 1
       => task_cur' = task_cur]_vars

\* C11 amended: a call of schedule() that finds exactly one runnable task
\* performs no context switch when that task is the current one, and
\* otherwise switches to exactly that task.
C11_SingleRunnableIsChosen ==
    [][lastop'.sched /\ Cardinality(Runnable(tasks', task_head')) = 1
       => /\ Runnable(tasks', task_head') = {task_cur'}
          /\ (task_cur \in Runnable(tasks', task_head') => task_cur' = task_cur)
          /\ (task_cur \notin Runnable(tasks', task_head') => task_cur' # task_cur)]_vars

\* schedule() has returned to the only runnable task of a ring of two.
C11_Witness ==
    /\ lastop.sched
    /\ Cardinality(RingSet(tasks, task_head)) = 2
    /\ Runnable(tasks, task_head) = {task_cur}
    /\ pc[task_cur] = "run"

\* ------------------------------------------------------------------ C12
\* C12: with two tasks that stay runnable and only yield, every call of
\* schedule() runs the other task, so the run counts never differ by more
\* than one and both are at least 40 after 100 yields.
C12_RoundRobinFair ==
    /\ next_task_id = 3 =>
          /\ run_count[1] + run_count[2] = yields + 1
          /\ run_count[1] - run_count[2] \in {0, 1}
    /\ yields = MaxYields => run_count[1] >= 40 /\ run_count[2] >= 40

C12_Witness ==
    yields = MaxYields /\ run_count[1] >= 40 /\ run_count[2] >= 40

\* ------------------------------------------------------------------ C13
\* C13: once the init task has been created the task ring is never empty.
C13_RingNeverEmpty ==
    next_task_id > 1 => task_head # 0 /\ RingSet(tasks, task_head) # {}

\* A task has been reaped and the only task left is the current one, a
\* zombie that schedule() returned to.
C13_Witness ==
    /\ \E t \in 1..(next_task_id - 1) : pc[t] = "none"
    /\ Running
    /\ RingSet(tasks, task_head) = {task_cur}
    /\ tasks[task_cur].zombie

\* ------------------------------------------------------------------ C14
\* The task structures that are allocated and not freed.
Allocated == {t \in TaskIds : pc[t] # "none"}

\* The task n next-links away from t (0 when the chain breaks).
RECURSIVE NextIter(_, _)
NextIter(t, n) ==
    IF n = 0 \/ t = 0 THEN t ELSE NextIter(tasks[t].next, n - 1)

\* C14: the task ring is empty, or following next from any task comes back
\* to that task after exactly as many steps as there are tasks.
C14_RingCircular ==
    IF task_head = 0 THEN Allocated = {}
    ELSE /\ task_head \in Allocated
         /\ \A t \in Allocated :
               /\ NextIter(t, Cardinality(Allocated)) = t
               /\ \A k \in 1..(Cardinality(Allocated) - 1) :
                     NextIter(t, k) \notin {0, t}

\* The first task of the ring has been reaped and the ring closed around
\* the tasks that are left.
C14_Witness ==
    /\ pc[1] = "none"
    /\ next_task_id > 1
    /\ Cardinality(Allocated) >= 2
    /\ \E t \in 1..(next_task_id - 1) : t > 1 /\ pc[t] = "none"

\* ============================================ properties of the allocators
\* The free list as the sequence of its blocks' addresses and sizes.
FreeView ==
    LET f == FreeSeq(km_mem, free_list, Fuel(km_mem))
    IN  [i \in 1..Len(f) |-> <<f[i], Read(km_mem, f[i]).size>>]

\* ------------------------------------------------------------------ C15
\* C15: a kfree of a small pointer that was freed already and not handed out
\* since leaves the free list as it was.
C15_DoubleFreeLeavesFreeList ==
    [][km_op'.op = "dfree" => FreeView' = FreeView]_vars

\* ------------------------------------------------------------------ C16
\* The list from cur on is strictly increasing by address and ends.
RECURSIVE Increasing(_, _, _)
Increasing(mem, cur, fuel) ==
    \/ cur = NULL
    \/ /\ fuel > 0
       /\ Read(mem, cur).next = NULL \/ cur < Read(mem, cur).next
       /\ Increasing(mem, Read(mem, cur).next, fuel - 1)

\* C16: after any sequence of kmalloc and kfree calls the free list is
\* strictly increasing by block address.
C16_FreeListIncreasing == Increasing(km_mem, free_list, Fuel(km_mem))

\* ------------------------------------------------------------------ C17
\* The headers of the live allocations.
LiveBlocks == {p - HDR : p \in km_live}

\* The blocks at a and b, header and payload, share no byte.
Apart(a, b) ==
    \/ a + HDR + Read(km_mem, a).size <= b
    \/ b + HDR + Read(km_mem, b).size <= a

\* The block at a lies in pages that the page allocator has handed out.
InPool(a) ==
    /\ a >= PoolStart
    /\ \A i \in Pages :
          (a < PageAddr(i + 1) /\ PageAddr(i) < a + HDR + Read(km_mem, a).size)
          => page_bitmap[i]

\* C17: with every kfree applied to a live pointer, the live allocations and
\* the free blocks, headers included, are pairwise disjoint and lie in
\* allocated pages; every payload is at least what was asked for, rounded
\* up to 16.
C17_BlocksDisjoint ==
    LET free == FreeBlocks(km_mem, free_list)
    IN  /\ LiveBlocks \cap free = {}
        /\ \A a, b \in LiveBlocks \cup free : a # b => Apart(a, b)
        /\ \A a \in LiveBlocks \cup free :
              InPool(a) /\ Read(km_mem, a).size >= 16 /\ Read(km_mem, a).size % 16 = 0

\* A 1-byte allocation lies between a live allocation and a free block.
C17_Witness ==
    \E p \in km_live :
        /\ Read(km_mem, p - HDR).size = 16
        /\ p + 16 \in FreeBlocks(km_mem, free_list)
        /\ \E q \in km_live : q + Read(km_mem, q - HDR).size = p - HDR

\* ------------------------------------------------------------------ C18
\* The scenario of the claim: three requests of 64 bytes, freed q, p, r.
ScnOfClaim ==
    /\ scn.step = 6
    /\ scn.sizes = <<64, 64, 64>>
    /\ scn.order = <<2, 1, 3>>

\* The pages the page allocator has handed out.
UsedPages == Cardinality({i \in Pages : page_bitmap[i]})

\* C18 as stated: the scenario leaves a single free block whose size is the
\* three allocations plus two headers.
C18_SingleBlockOfThree ==
    ScnOfClaim => Len(FreeView) = 1 /\ FreeView[1][2] = 3 * 64 + 2 * HDR

\* C18 amended: on a fresh allocator the three frees, in any order, leave a
\* single free block that also takes in the free remainder behind the last
\* allocation: it starts at the first page and covers all the pages that
\* were fetched but for its own header, 4064 bytes in the claim's scenario.
C18_SingleBlockOfPages ==
    /\ scn.step = 6 =>
          FreeView = <<(<<PoolStart, UsedPages * PAGE_SIZE - HDR>>)>>
    /\ ScnOfClaim => FreeView = <<(<<PoolStart, PAGE_SIZE - HDR>>)>>

C18_Witness ==
    ScnOfClaim /\ Len(FreeView) = 1 /\ FreeView[1][2] = PAGE_SIZE - HDR

\* ------------------------------------------------------------------ C19
\* The page indexes of the range of count pages at ptr.
PagesOf(ptr, count) == {i \in Pages : ptr <= PageAddr(i) /\ PageAddr(i) < ptr + count * PAGE_SIZE}

\* A page's bit is set exactly when a live range holds the page, every live
\* range is count whole pages of the pool, and no two live ranges share a page.
BitmapMatches ==
    /\ \A i \in Pages :
          page_bitmap[i] <=> \E rg \in pa_live : i \in PagesOf(rg[1], rg[2])
    /\ \A rg \in pa_live : Cardinality(PagesOf(rg[1], rg[2])) = rg[2]
    /\ \A rg1, rg2 \in pa_live :
          rg1 # rg2 => PagesOf(rg1[1], rg1[2]) \cap PagesOf(rg2[1], rg2[2]) = {}

\* Some window of count pages is free.
HasWindow(count) ==
    \E s \in Pages : s + count <= MaxPages /\ \A j \in s..(s + count - 1) : ~page_bitmap[j]

\* C19: after every palloc_alloc_contig and every matching palloc_free the
\* bitmap matches the live ranges; an allocation that finds no window of
\* count free pages returns NULL and leaves the bitmap as it was, and one
\* that finds a window returns it.
C19_BitmapMatchesRanges ==
    [][/\ BitmapMatches'
       /\ pa_ret'.op = "alloc" /\ ~(pa_ret'.count > 0 /\ HasWindow(pa_ret'.count))
            => pa_ret'.ptr = NULL /\ page_bitmap' = page_bitmap
       /\ pa_ret'.op = "alloc" /\ pa_ret'.count > 0 /\ HasWindow(pa_ret'.count)
            => pa_ret'.ptr # NULL /\ page_bitmap' # page_bitmap]_vars

\* An allocation has failed for want of a window although as many pages
\* as it asked for are free.
C19_Witness ==
    /\ pa_ret.op = "alloc" /\ pa_ret.ptr = NULL
    /\ pa_ret.count > 0
    /\ Cardinality({i \in Pages : ~page_bitmap[i]}) >= pa_ret.count
    /\ BitmapMatches

\* ================================================== properties of the PTY
\* ------------------------------------------------------------------ C20
\* C20: N bytes written into an empty input ring and then read back come
\* out the same and in the same order, for every N up to the ring's
\* capacity of 512 slots minus one; the ring is empty again afterwards and
\* no slot outside in_buf has been written.
C20_PtyRoundTrip ==
    /\ DOMAIN pty_buf \subseteq 0..(PTY_IN_BUF - 1)
    /\ /\ Len(pty_io.read) = Len(pty_io.data)
       /\ Len(pty_io.data) <= PTY_IN_SIZE - 1
       => pty_io.read = pty_io.data /\ pty_head = pty_tail

\* A round trip of 511 bytes that wrapped around the end of the ring.
C20_Witness ==
    /\ Len(pty_io.data) = PTY_IN_SIZE - 1
    /\ pty_io.read = pty_io.data
    /\ pty_head = PTY_IN_SIZE - 3

\* =============================================== properties of pty_getline
AbcLine == <<97, 98, 99>>

\* C21 as stated: once the bytes 'a', 'b', 'c', '\n' are the producer's line
\* and pty_getline has returned, it has returned "abc", the newline had been
\* written to the input ring and read by the call, and the output ring holds
\* "abc\n" -- whatever max_len the caller passed.
C21_EchoAbc ==
    (gl.pc = "ret" /\ pty_io.data = AbcLine \o <<NL>>) =>
        /\ gl.ret = 3 /\ gl.buf = AbcLine
        /\ pty_io.written = 4 /\ gl.nl
        /\ OutContents(pty_out) = AbcLine \o <<NL>>

\* C21 for a caller whose buffer has room for the line (max_len >= 5): the
\* call does not return before it has read the newline, it returns "abc", and
\* the output ring then holds exactly "abc\n".
C21_EchoAbcWithRoom ==
    (gl.pc = "ret" /\ pty_io.data = AbcLine \o <<NL>> /\ gl.max_len >= 5) =>
        /\ gl.ret = 3 /\ gl.buf = AbcLine
        /\ pty_io.written = 4 /\ gl.nl
        /\ OutContents(pty_out) = AbcLine \o <<NL>>

\* C21 case: the call, made with room for the line, has returned "abc".
C21_Witness ==
    /\ gl.pc = "ret" /\ pty_io.data = AbcLine \o <<NL>> /\ gl.max_len >= 5
    /\ gl.buf = AbcLine

\* ======================================== properties of the window manager
\* C22: after any sequence of create, close, click, taskbar click and
\* set_state operations the window list holds every open window exactly once
\* (and nothing else), and focused_window is NULL or a window of the list.
C22_WindowListSound ==
    /\ SeqSet(WinList(wm)) = wm.alloc
    /\ Len(WinList(wm)) = Cardinality(wm.alloc)
    /\ wm.focused_window = NULL \/ wm.focused_window \in SeqSet(WinList(wm))

\* C22 case: a close has unlinked a window while another one, not in its
\* normal state, stays open and focused.
C22_Witness ==
    /\ wm.op.steps # <<>>
    /\ wm.focused_window # NULL
    /\ \E w \in wm.alloc : wm.wins[w].state # "NORMAL"

\* The press is on one of the three title bar buttons of the window.
OnButton(g, mx, my) ==
    /\ g.state # "FULLSCREEN" /\ my < g.y + 22
    /\ \/ mx >= g.x + g.w - 22 /\ mx <= g.x + g.w - 2
       \/ mx >= g.x + g.w - 42 /\ mx <= g.x + g.w - 24
       \/ mx >= g.x + g.w - 62 /\ mx <= g.x + g.w - 44

\* Three windows, none minimized, are on the list, W1 -- the one created
\* first -- last, and the press at (mx, my) is inside W1 and on no button.
PressInsideW1(W, mx, my) ==
    /\ Len(WinList(W)) = 3
    /\ \A k \in 1..3 : W.wins[WinList(W)[k]].state # "MINIMIZED"
    /\ WinHit(W.wins[WinList(W)[3]], mx, my)
    /\ ~OnButton(W.wins[WinList(W)[3]], mx, my)

\* The press raised W1: it is the head and focused, the other two follow in
\* their old order.
RaisedW1(W, V) ==
    /\ WinList(V) = <<WinList(W)[3], WinList(W)[1], WinList(W)[2]>>
    /\ V.focused_window = WinList(W)[3]

\* C23 as stated: with three windows created in order, a press at any point
\* inside W1's bounds that is on no button raises and focuses W1 and leaves
\* W2 and W3 in their order.
C23_ClickRaisesW1 ==
    [][(wm'.op.name = "press"
        /\ PressInsideW1(wm, wm'.op.pre[1], wm'.op.pre[2]))
       => RaisedW1(wm, wm')]_vars

\* C23 for a point that is above the taskbar strip and inside neither W2 nor
\* W3, which lie in front of W1.
C23_ClickOnVisibleW1 ==
    [][(wm'.op.name = "press"
        /\ PressInsideW1(wm, wm'.op.pre[1], wm'.op.pre[2])
        /\ wm'.op.pre[2] < SCREEN_H - taskbar_h
        /\ \A k \in 1..2 :
              ~WinHit(wm.wins[WinList(wm)[k]], wm'.op.pre[1], wm'.op.pre[2]))
       => RaisedW1(wm, wm')]_vars

\* C23 case: the last operation was a press inside the window that was the
\* last of three and now is the head and focused, in front of two windows
\* of which one overlaps it.
C23_Witness ==
    /\ wm.op.name = "press" /\ wm.op.pre[3] = 3
    /\ Len(WinList(wm)) = 3
    /\ wm.focused_window = wm.window_list
    /\ WinHit(wm.wins[wm.window_list], wm.op.pre[1], wm.op.pre[2])
    /\ \A k \in 2..3 : ~WinHit(wm.wins[WinList(wm)[k]], wm.op.pre[1], wm.op.pre[2])
    /\ \E k \in 2..3 : WinHit(wm.wins[WinList(wm)[k]], 250, 200)
    /\ WinHit(wm.wins[wm.window_list], 250, 200)

\* The step is the second call of  wm_set_state(w, S); wm_set_state(w, NORMAL)
\* with S one of the three states.
SecondOfRoundTrip(W, V) ==
    /\ W.op.name = "set_state" /\ W.op.arg \in RoundTripStates
    /\ V.op.name = "set_state" /\ V.op.arg = "NORMAL"
    /\ V.op.win = W.op.win

\* C24 as stated: for every window, whatever its state, the two calls leave
\* (x, y, w, h) as they were before the first.
C24_RoundTripAnyState ==
    [][SecondOfRoundTrip(wm, wm') => Geom(wm'.wins[wm'.op.win]) = wm.op.pre]_vars

\* C24 for a window that is in state NORMAL before the two calls: its
\* geometry is (saved_x, saved_y, saved_w, saved_h) between the calls.
C24_RoundTripFromNormal ==
    [][(SecondOfRoundTrip(wm, wm') /\ wm.op.from = "NORMAL")
       => Geom(wm'.wins[wm'.op.win]) = wm.op.pre]_vars

\* C24 case: a window that was dragged away from where it was created has
\* been maximized from NORMAL and, by the next call, set back to NORMAL.
C24_Witness ==
    /\ wm.op.second
    /\ wm.op.win \in wm.alloc
    /\ wm.drags > 0
    /\ Geom(wm.wins[wm.op.win]) # wm.op.pre
    /\ \A g \in FocusGeoms : wm.wins[wm.op.win].x # g.x

\* C25: a wm_close_window that closes an open window unlinks it, then invokes
\* its on_close callback once, then frees the struct.
C25_CloseProtocol ==
    wm.op.steps # <<>> => wm.op.steps = <<"unlink", "on_close", "kfree">>

\* C26: an event stored in a window's input queue stays there, behind the
\* events stored before it, until wm_pop_key_event hands it to the owner --
\* each pop hands out the oldest one -- or the window is closed; and with an
\* owner that keeps polling, every stored event is popped or discarded with
\* the window: a non-empty queue drains, and each of the probe events leaves
\* the queue after it entered it.
QueueHoldsPending ==
    /\ wm.alloc = {} => wm.keys.pending = <<>>
    /\ \A w \in wm.alloc : QueueContents(wm.wins[w]) = wm.keys.pending

PopsOldest ==
    wm.keys.lastpop.ok = 1 =>
        /\ wm.keys.lastpop.ev = wm.keys.lastpop.oldest
        /\ wm.keys.lastpop.ev # 0

InPending(e) == \E k \in 1..Len(wm.keys.pending) : wm.keys.pending[k] = e

\* The first event, the last one that fits and one offered after a drop.
ProbeEvents == {1, WM_INPUT_QUEUE_SIZE - 1, WM_INPUT_QUEUE_SIZE + 1}

C26_EventsPoppedInOrder ==
    /\ [](QueueHoldsPending /\ PopsOldest)
    /\ (wm.keys.pending # <<>>) ~> (wm.keys.pending = <<>>)
    /\ \A e \in ProbeEvents : InPending(e) ~> ~InPending(e)

\* C26 case: the queue was full, a further event was dropped, and the owner
\* has popped an event from the full queue.
C26_Witness ==
    /\ wm.keys.lastpop.ok = 1
    /\ wm.keys.offered - wm.keys.lastpop.ev >= WM_INPUT_QUEUE_SIZE
    /\ Len(wm.keys.pending) = WM_INPUT_QUEUE_SIZE - 2

\* A task waits for an event when it is a live task of the ring and a node of
\* the waiter list carries its id and the event.
WaitsFor(t, event_id) ==
    /\ task_exists(tasks, task_head, t) /\ ~tasks[t].zombie
    /\ \E i \in 1..Len(wait_list) :
          wait_list[i].task_id = t /\ wait_list[i].event_id = event_id

\* A step made by a call of input_push_event.
IsPush == inq'.calls # inq.calls

\* What the call signals: WM after every stored event, MOUSE before it unless
\* the event is a keyboard key; nothing after a dropped event.
PushSignalsRight ==
    inq'.last.evs =
        IF ~inq'.last.pushed THEN <<>>
        ELSE IF inq'.last.type \in {INPUT_TYPE_REL, INPUT_TYPE_ABS,
                                    INPUT_TYPE_MOUSE_BTN}
             THEN <<"MOUSE", "WM">>
        ELSE <<"WM">>

\* The signalling of input_push_event alone, and a dropped event leaving the
\* waiter list as it is.
PushSignals ==
    [][IsPush => /\ PushSignalsRight
                 /\ ~inq'.last.pushed => wait_list' = wait_list]_vars

\* C27: every successful input_push_event signals WM, and MOUSE too for REL,
\* ABS and remapped mouse buttons, and every task waiting for a signalled
\* event at that moment is runnable after the call; a dropped push signals
\* nothing.
C27_PushWakesWaiters ==
    [][IsPush =>
          /\ PushSignalsRight
          /\ ~inq'.last.pushed => wait_list' = wait_list
          /\ \A t \in TaskIds :
                (\E e \in SeqToSet(inq'.last.evs) : WaitsFor(t, e))
                    => tasks'[t].fn]_vars

\* A command of the initialisation failed: the call timed out or the
\* response was not of the expected OK type.
CmdFailed(e) == e.rc < 0 \/ e.type # Expected(e.cmd)

\* The GPU subsystem did not start: virtio_gpu_init returned -1, gpu_active
\* is 0, and no flush has sent a command (the ring indices are where the
\* initialisation left them).
GpuNotStarted ==
    /\ gpu.ret = -1
    /\ gpu.gpu_active = 0
    /\ gpu.flushed = <<>>
    /\ gpu.avail = Len(gpu.sent)

\* C28 as stated: after a virtio_gpu_init in which any command failed, the
\* GPU subsystem has not started.
C28_AnyFailureStopsInit ==
    (gpu.inits = 1 /\ \E i \in 1..Len(gpu.sent) : CmdFailed(gpu.sent[i]))
        => GpuNotStarted

\* C28 for the commands before SET_SCANOUT: after a virtio_gpu_init in which
\* GET_DISPLAY_INFO, RESOURCE_CREATE_2D or RESOURCE_ATTACH_BACKING failed,
\* the GPU subsystem has not started.
C28_FailureBeforeScanoutStopsInit ==
    (gpu.inits = 1 /\ \E i \in 1..Len(gpu.sent) :
                         /\ gpu.sent[i].cmd # "SET_SCANOUT"
                         /\ CmdFailed(gpu.sent[i]))
        => GpuNotStarted

\* C28 case: RESOURCE_ATTACH_BACKING failed after two commands succeeded, and
\* virtio_gpu_flush has been called since.
C28_Witness ==
    /\ gpu.inits = 1 /\ Len(gpu.sent) = 3
    /\ CmdFailed(gpu.sent[3])
    /\ gpu.flushes > 0

\* C29: from the exit or kill that marks a task until the task is reaped,
\* its function pointer is null: no tick advance and no wake_event gives a
\* zombie of the ring its function pointer back, so a task whose function
\* pointer is set is not a zombie.
C29_ZombieFnStaysNull ==
    \A t \in RingSet(tasks, task_head) : tasks[t].zombie => ~tasks[t].fn

\* A blocking call made in this step has returned to its caller: schedule()
\* came back without a switch.
ReturnedAtOnce(op) ==
    /\ lastop'.op = op
    /\ task_cur' = task_cur
    /\ pc'[task_cur'] = "run"

\* C30: a blocking call returns only after its wake condition occurred:
\* task_block_current_until(t) does not return while scheduler_tick < t, and
\* task_wait_event(id) does not return unless a wake_event(id) issued after
\* the wait has given the caller its function pointer back -- also when no
\* other task of the ring is runnable.
C30_BlockingCallsBlock ==
    [][/\ ReturnedAtOnce("block_until")
          => scheduler_tick' >= tasks'[task_cur'].wake_tick
       /\ ReturnedAtOnce("wait_event") => tasks'[task_cur'].fn]_vars

\* C31: a blocked live task can be woken again: no step of a live task of the
\* ring overwrites its stashed function pointer with null without giving the
\* function pointer back, so the wake tests of scheduler_tick_advance and
\* task_wake_event, which need saved_fn, can still restore it.
C31_StashNeverLost ==
    [][\A t \in RingSet(tasks, task_head) \cap RingSet(tasks', task_head') :
          (tasks[t].saved_fn /\ ~tasks[t].zombie /\ ~tasks'[t].zombie)
              => (tasks'[t].saved_fn \/ tasks'[t].fn)]_vars

\* C32: schedule() leaves the IRQ mask as it found it: when a call returns to
\* its caller without a switch the mask is the one the caller had, and a
\* context that is switched back to continues with the mask it saved.
C32_ScheduleKeepsMask ==
    [][/\ irqm'.last.path \in {"no_tasks", "none_runnable", "stay"}
          => irqm'.masked = irqm.masked
       /\ (irqm'.last.path = "switch" /\ pc[task_cur'] # "new")
          => irqm'.masked = irqm.flags[task_cur']]_vars

\* A step of task_create_with_stack that returned the new id.
Created == next_task_id' = next_task_id + 1

\* What every successful task_create sets besides the ring position: the
\* caller's id as parent, and an id above every id of the ring.
CreatedParentAndId ==
    /\ tasks'[next_task_id].parent_id = task_cur
    /\ next_task_id \in RingSet(tasks', task_head')
    /\ \A t \in RingSet(tasks, task_head) \cup {task_cur} : t < next_task_id

\* C33 as stated: task_create links the new task immediately after the
\* current task, gives it the caller's id as parent, and its id is larger
\* than every id handed out before.
C33_CreateAfterCursor ==
    [][Created =>
          /\ CreatedParentAndId
          /\ task_cur \in RingSet(tasks, task_head)
                => /\ tasks'[task_cur].next = next_task_id
                   /\ tasks'[next_task_id].next = tasks[task_cur].next]_vars

\* C33 amended: task_create links the new task immediately after the head of
\* the ring (task_head), which is the current task only while the current
\* task is the head; into an empty ring it links the task to itself and
\* makes it the head. Parent and id are as stated.
C33_CreateAfterHead ==
    [][Created =>
          /\ CreatedParentAndId
          /\ task_head # 0
                => /\ tasks'[task_head].next = next_task_id
                   /\ tasks'[next_task_id].next = tasks[task_head].next
                   /\ task_head' = task_head
          /\ task_head = 0
                => /\ tasks'[next_task_id].next = next_task_id
                   /\ task_head' = next_task_id]_vars

\* A task other than the head has just created a task, which sits right
\* after the head and not after its creator.
C33_Witness ==
    LET n == next_task_id - 1
    IN  /\ n >= 1
        /\ task_cur # BOOT /\ task_cur # task_head
        /\ n \in RingSet(tasks, task_head)
        /\ pc[n] = "new"
        /\ tasks[n].parent_id = task_cur
        /\ tasks[task_head].next = n
        /\ tasks[task_cur].next # n

\* C34: no context is switched in with a broken stack: whenever the CPU
\* changes to a task's context, every guard word of that task's stack holds
\* the poison, its canary is intact and the stack pointer it continues with
\* is the saved one and lies within the usable stack; when schedule() has
\* chosen a task whose stack fails one of the three, the kernel halts and the
\* CPU stays in the caller's context.
C34_NoSwitchIntoBrokenStack ==
    [][/\ stk'.on_cpu # stk.on_cpu
          => /\ stk.t[stk'.on_cpu].guard = {}
             /\ stk.t[stk'.on_cpu].canary
             /\ stk.t[stk'.on_cpu].sp \in STACK_GUARD_SIZE..total_alloc
             /\ stk'.sp = stk.t[stk'.on_cpu].sp
             /\ stk'.on_cpu = task_cur'
       /\ (/\ task_cur' # task_cur
           /\ \/ stk.t[task_cur'].guard # {}
              \/ ~stk.t[task_cur'].canary
              \/ stk.t[task_cur'].sp \notin STACK_GUARD_SIZE..total_alloc)
          => stk'.halted /\ stk'.on_cpu = stk.on_cpu]_vars

\* schedule() chose a task whose canary was overwritten and the kernel
\* halted in the caller's context.
C34_Witness ==
    /\ stk.halted
    /\ stk.on_cpu # task_cur
    /\ stk.on_cpu # BOOT
    /\ ~stk.t[task_cur].canary
    /\ stk.t[task_cur].guard = {}
    /\ stk.t[task_cur].sp \in STACK_GUARD_SIZE..total_alloc

\* C35: while the focused window has a PTY, a press or repeat of a key that
\* maps to a character is written to the PTY's input ring, whatever the fill
\* level of the window's own input queue: when the ring has room, the
\* character is stored at the old in_h and in_h advances.
C35_PrintableKeyReachesPty ==
    [][(/\ wm'.keys.offered = wm.keys.offered + 1
        /\ kbd.tty
        /\ wm.focused_window # NULL
        /\ kbd'.last.kev.value >= 1
        /\ kbd'.last.kev.code \notin {42, 54, 58}
        /\ kbd'.last.ch # 0
        /\ (pty_head + 1) % PTY_IN_SIZE # pty_tail)
          => /\ pty_head' = (pty_head + 1) % PTY_IN_SIZE
             /\ PtyLoad(pty_buf', pty_head) = kbd'.last.ch]_vars

\* C36: every insertion, removal and free of a waiter node, by
\* task_wait_event, task_wake_event and the reaping of zombies, happens with
\* IRQs masked.
C36_WaiterEditsMasked ==
    [][\A e \in irqm'.last.edits : e.masked]_vars

\* C37: the compositor's drag target never refers to a closed window:
\* drag_win is null or a window that has not been closed, so a mouse movement
\* with the button held never writes to the geometry of a closed window.
C37_DragTargetOpen ==
    wm.drag_win = NULL \/ wm.drag_win \in wm.alloc

\* C38: timer_sleep_ms uses the time base of the scheduler tick, whatever the
\* counter was at timer_init: once the scheduler has polled the clock, no
\* task that sleeps in timer_sleep_ms is overdue, i.e. a task still blocked
\* on the timer has a wake time later than what timer_get_ms reads.
C38_SleepersNotOverdue ==
    \A t \in RingSet(tasks, task_head) :
        (/\ tmr.last_ms = timer_get_ms(tmr)
         /\ tasks[t].block_type = "TIMER"
         /\ ~tasks[t].fn /\ tasks[t].saved_fn)
            => tasks[t].wake_tick > timer_get_ms(tmr)

\* The slots, head and tail of each ring.
RingState(ring) ==
    IF ring = "in" THEN <<pty_buf, pty_head, pty_tail>>
    ELSE IF ring = "out" THEN <<pty_out.buf, pty_out.h, pty_out.t>>
    ELSE IF ring = "key" THEN <<evq.key, inq.key_head, inq.key_tail>>
    ELSE <<evq.mouse, inq.mouse_head, inq.mouse_tail>>

RingModulus(ring) ==
    IF ring = "in" THEN PTY_IN_SIZE
    ELSE IF ring = "out" THEN PTY_OUT_SIZE
    ELSE EVENT_QUEUE_SIZE

VqPending(V) == (V.used_idx + IdxMod - V.last_used_idx) % IdxMod

\* The descriptor at the k-th ring position from the driver's cursor on: in
\* the used ring while the driver has not consumed it, then in the available
\* ring.
VqOutstanding(V, k) ==
    LET p == (V.last_used_idx + k) % IdxMod
    IN  IF k < VqPending(V) THEN V.used[p % V.qsize].id
        ELSE V.avail[p % V.qsize]

\* C40: virtio input polling conserves descriptors: when a call of
\* virtio_input_poll has returned, the available index is qsize ahead of
\* last_used_idx (as 16-bit indices), every descriptor is outstanding exactly
\* once, in the used ring or in the available ring, and every event the
\* device delivered before the driver's cursor was consumed exactly once, no
\* other entry at all.
C40_PollConservesDescriptors ==
    vq.returned =>
        /\ (vq.avail_idx + IdxMod - vq.last_used_idx) % IdxMod = vq.qsize
        /\ \A d \in 0..(vq.qsize - 1) :
              Cardinality({k \in 0..(vq.qsize - 1) :
                             VqOutstanding(vq, k) = d}) = 1
        /\ vq.takes[0] = 0
        /\ \A n \in 1..vq.delivered :
              vq.takes[n] = IF n + VqPending(vq) <= vq.delivered THEN 1 ELSE 0

====
